---- MODULE Spec2Model ----
(***************************************************************************)
(* NpicDates: the record store (class StorageService of src/main.py).      *)
(*                                                                         *)
(* The store is one in-memory document, self.data, with three lists:       *)
(* equipos, mantenimientos and tipos.  Only importar_datos_json writes     *)
(* tipos: every other operation is a pure operator below, translated from  *)
(* its Python body, that maps the two other lists and the call's arguments *)
(* to the new lists and the value the method returns; one action per       *)
(* operation applies it.                                                   *)
(*                                                                         *)
(* Python strings on which the code works character by character (names:   *)
(* strip(); notes: [:50]; dates: <= and >=) are sequences of one-character *)
(* strings.  An Optional value is <<>> (None) or <<v>>.                     *)
(***************************************************************************)
EXTENDS Integers, Sequences, FiniteSets, TLC

VARIABLES
    equipos,         \* self.data["equipos"]: list of equipment records
    mantenimientos,  \* self.data["mantenimientos"]: list of maintenance events
    tipos,           \* self.data.get("tipos"): <<the catalog>>, <<>> without the key
    disk,            \* the document as last written by save()
    last             \* the last call: operation, arguments and returned value

vars == <<equipos, mantenimientos, tipos, disk, last>>

(***************************************************************************)
(* Bounds of the model.                                                    *)
(***************************************************************************)
MaxIdEquipo == 2       \* a record is created only while its new id is at most this
MaxIdMant == 1         \* an event is appended only while its new id is at most this
MaxPosicion == 1       \* save_equipo is called with posicion in 0..MaxPosicion
TopePosicion == 1      \* a record is created only while every position is below this
MaxIdPos == 3          \* SpecPosiciones: the bound on the new id
TopePos == 2           \* SpecPosiciones: the bound on the positions
MaxZonaExtra == 2      \* SpecZonaLlena: records created beyond the zone capacity
MaxIdHist == 3         \* SpecHistorial: the bound on the new event id
MaxBusquedaExtra == 2  \* SpecBusqueda: records created beyond the initial ones
MaxIdFiltro == 2       \* SpecFiltro: the bound on the new event id
MaxIdImport == 2       \* SpecImport: the bound on the new event id
MaxIdDias == 2         \* SpecDias: the bound on the new event id
MaxHuecos == 2         \* SpecHuecos: records created on top of the initial ones
MaxIdIds == 2          \* SpecIds: the bound on the new ids
TopeIds == 1           \* SpecIds: the bound on the positions
MaxIdEscritura == 2    \* SpecEscritura: the bound on the new id
TopeEscritura == 1     \* SpecEscritura: the bound on the positions

(***************************************************************************)
(* Program constants.                                                      *)
(***************************************************************************)
ZonaCapacidad == 10    \* insert_equipo_at_position: len(equipos_tipo) >= 10
MaxResultados == 25    \* buscar_equipos: resultados[:25]
Dias24Meses == 730     \* obtener_historial_filtrado: timedelta(days=730)
NotaMax == 50          \* set_nota_equipo: str(nota)[:50]
SegundosDia == 86400   \* timedelta.days: whole days of 86400 seconds

(***************************************************************************)
(* Strings.                                                                *)
(***************************************************************************)
\* Code point of the characters the model uses (Python compares str by code point).
Ord(c) ==
    CASE c = "\t" -> 9
      [] c = "\n" -> 10
      [] c = " " -> 32
      [] c = "-" -> 45
      [] c = "/" -> 47
      [] c = "0" -> 48
      [] c = "1" -> 49
      [] c = "2" -> 50
      [] c = "3" -> 51
      [] c = "4" -> 52
      [] c = "5" -> 53
      [] c = "6" -> 54
      [] c = "7" -> 55
      [] c = "8" -> 56
      [] c = "9" -> 57
      [] c = "_" -> 95
      [] c = "a" -> 97
      [] c = "b" -> 98
      [] c = "c" -> 99
      [] c = "n" -> 110
      [] c = "x" -> 120

\* str.isspace() on one character, for the characters the model uses.
IsSpace(c) == c \in {"\t", "\n", " "}

RECURSIVE lstrip(_)
lstrip(s) == IF s # <<>> /\ IsSpace(Head(s)) THEN lstrip(Tail(s)) ELSE s

RECURSIVE rstrip(_)
rstrip(s) ==
    IF s # <<>> /\ IsSpace(s[Len(s)]) THEN rstrip(SubSeq(s, 1, Len(s) - 1)) ELSE s

\* str.strip(): leading and trailing whitespace removed.
strip(s) == rstrip(lstrip(s))

\* Python's a <= b on str: lexicographic by code point, a proper prefix is smaller.
RECURSIVE StrLeq(_, _)
StrLeq(a, b) ==
    IF a = <<>> THEN TRUE
    ELSE IF b = <<>> THEN FALSE
    ELSE IF Ord(Head(a)) < Ord(Head(b)) THEN TRUE
    ELSE IF Ord(Head(a)) > Ord(Head(b)) THEN FALSE
    ELSE StrLeq(Tail(a), Tail(b))

\* s[:n]
Take(s, n) == SubSeq(s, 1, IF Len(s) < n THEN Len(s) ELSE n)

\* max(list, default=0)
MaxOr0(S) == IF S = {} THEN 0 ELSE CHOOSE x \in S : \A y \in S : y <= x

\* Index of the first element of s that satisfies Test, 0 when there is none
\* (a Python "for x in s: if test(x): ... break/return").
FirstIndex(s, Test(_)) ==
    LET I == {i \in DOMAIN s : Test(s[i])}
    IN  IF I = {} THEN 0 ELSE CHOOSE i \in I : \A j \in I : i <= j

\* Index of the first equipment named nombre, 0 when there is none.
IndexOfNombre(eqs, nombre) ==
    LET Test(e) == e.nombre = nombre IN FirstIndex(eqs, Test)

\* The result of a call: the document it leaves, what it returns (ret: the bool,
\* n: the count of borrar_historial_entre_fechas, msg: rename_equipo's message)
\* and whether it called self.save().
Result(eqs, mants, ret, n, msg, saves) ==
    [equipos |-> eqs, mantenimientos |-> mants, ret |-> ret, n |-> n,
     msg |-> msg, saves |-> saves]

(***************************************************************************)
(* _initialize_default_data: the seeded catalog (id, codigo, seccion; the  *)
(* display names play no part in any operation and are left out).          *)
(***************************************************************************)
Tipo(id, codigo, seccion) == [id |-> id, codigo |-> codigo, seccion |-> seccion]

tipos_basicos ==
    << Tipo(1, "carne", "positivo"), Tipo(2, "pescado", "positivo"),
       Tipo(3, "verdura", "positivo"), Tipo(4, "lacteos", "positivo"),
       Tipo(5, "charcuteria", "positivo"), Tipo(6, "bebidas_frias", "positivo"),
       Tipo(7, "leche_fresca", "positivo"), Tipo(8, "zumos", "positivo"),
       Tipo(9, "platos_preparados", "positivo"), Tipo(10, "vitrina_lpc_ls", "positivo"),
       Tipo(11, "mostrador_lpc", "positivo"), Tipo(12, "murales_lpc", "positivo"),
       Tipo(13, "mural_sushi", "positivo"), Tipo(14, "mural_ensaladas", "positivo"),
       Tipo(15, "camaras_refrigerado", "positivo"),
       Tipo(16, "central_frigorifica_positiva", "positivo"),
       Tipo(17, "aacc_lt_12", "aacc"), Tipo(18, "aacc_gt_12", "aacc"),
       Tipo(19, "murales_vitrinas_calientes", "caliente"),
       Tipo(20, "fosas_septicas", "fosas"),
       Tipo(21, "isla_carne", "negativo"), Tipo(22, "isla_verdura", "negativo"),
       Tipo(23, "armario_verdura", "negativo"), Tipo(24, "isla_pescado", "negativo"),
       Tipo(25, "isla_helados", "negativo"),
       Tipo(26, "armario_pescado_congelado", "negativo"),
       Tipo(27, "isla_marisco", "negativo"), Tipo(28, "isla_tartas", "negativo"),
       Tipo(29, "camaras_congelado", "negativo"),
       Tipo(30, "central_frigorifica_negativa", "negativo") >>

(***************************************************************************)
(* Queries.                                                                *)
(***************************************************************************)
\* The events of one equipment, in list order.
MantsDe(mants, id) ==
    LET Test(m) == m.equipo_id = id IN SelectSeq(mants, Test)

\* Mutant: the event with the latest date, not the one appended last.
ultimo_mant_por_fecha(mants, id) ==
    LET ms == MantsDe(mants, id)
    IN  IF ms = <<>> THEN <<>>
        ELSE LET k == CHOOSE k \in DOMAIN ms :
                          \A j \in DOMAIN ms :
                              /\ StrLeq(ms[j].ultima_fecha, ms[k].ultima_fecha)
                              /\ ms[j].ultima_fecha = ms[k].ultima_fecha => j <= k
             IN  <<ms[k]>>

\* mantenimientos[-1] if mantenimientos else None
ultimo_mant(mants, id) ==
    LET ms == MantsDe(mants, id)
    IN  IF ms = <<>> THEN <<>> ELSE <<ms[Len(ms)]>>

\* get_equipo_data(nombre): <<>> for None, else the one projected record.
get_equipo_data(eqs, mants, nombre) ==
    LET i == IndexOfNombre(eqs, nombre)
    IN  IF i = 0 THEN <<>>
        ELSE LET u == ultimo_mant(mants, eqs[i].id)
             IN  << [nombre |-> eqs[i].nombre,
                     seccion |-> eqs[i].seccion,
                     date |-> IF u = <<>> THEN <<>> ELSE <<u[1].ultima_fecha>>,
                     freq |-> IF u = <<>> THEN <<>> ELSE <<u[1].frecuencia_dias>>] >>

\* get_equipos_por_tipo(tipo): the dict as a function from names to records.
get_equipos_por_tipo(eqs, mants, tipo) ==
    LET I == {i \in DOMAIN eqs : eqs[i].tipo = tipo}
        \* a later record with the same key overwrites an earlier one
        Ult(nombre) == CHOOSE i \in I : /\ eqs[i].nombre = nombre
                                        /\ \A j \in I : eqs[j].nombre = nombre => j <= i
    IN  [nombre \in {eqs[i].nombre : i \in I} |->
            LET e == eqs[Ult(nombre)]
                u == ultimo_mant(mants, e.id)
            IN  [seccion |-> e.seccion,
                 date |-> IF u = <<>> THEN <<>> ELSE <<u[1].ultima_fecha>>,
                 freq |-> IF u = <<>> THEN <<>> ELSE <<u[1].frecuencia_dias>>,
                 posicion |-> e.posicion,
                 nota |-> e.nota]]

\* get_nota_equipo(nombre)
get_nota_equipo(eqs, nombre) ==
    LET i == IndexOfNombre(eqs, nombre)
    IN  IF i = 0 THEN <<>> ELSE eqs[i].nota

(***************************************************************************)
(* Mutating operations.                                                    *)
(***************************************************************************)
Equipo(id, nombre, seccion, tipo, posicion, nota) ==
    [id |-> id, nombre |-> nombre, seccion |-> seccion, tipo |-> tipo,
     posicion |-> posicion, nota |-> nota]

Mantenimiento(id, equipo_id, ultima_fecha, frecuencia_dias) ==
    [id |-> id, equipo_id |-> equipo_id, ultima_fecha |-> ultima_fecha,
     frecuencia_dias |-> frecuencia_dias]

\* Mutant: the new id is the length of the list plus one.
nuevo_id_por_longitud(lista) == Len(lista) + 1

\* max([e.get("id", 0) for e in lista], default=0) + 1
nuevo_id(lista) == MaxOr0({lista[i].id : i \in DOMAIN lista}) + 1

\* Mutant: save_equipo whose update replaces the record, keeping only its id.
save_equipo_reemplaza(eqs, mants, nombre, seccion, tipo, posicion) ==
    LET i == IndexOfNombre(eqs, nombre)
    IN  IF i # 0
        THEN Result([eqs EXCEPT ![i] = Equipo(eqs[i].id, nombre, seccion, tipo,
                                              posicion, <<>>)],
                    mants, TRUE, 0, "", TRUE)
        ELSE Result(Append(eqs, Equipo(nuevo_id(eqs), nombre, seccion, tipo, posicion, <<>>)),
                    mants, TRUE, 0, "", TRUE)

\* save_equipo(nombre, seccion, tipo, posicion)
save_equipo(eqs, mants, nombre, seccion, tipo, posicion) ==
    LET i == IndexOfNombre(eqs, nombre)
    IN  IF i # 0
        THEN Result([eqs EXCEPT ![i].seccion = seccion, ![i].tipo = tipo,
                                ![i].posicion = posicion],
                    mants, TRUE, 0, "", TRUE)
        ELSE Result(Append(eqs, Equipo(nuevo_id(eqs), nombre, seccion, tipo, posicion, <<>>)),
                    mants, TRUE, 0, "", TRUE)

\* Mutant: save_mantenimiento that keeps one event for each record, the new one.
save_mantenimiento_unico(eqs, mants, equipo_nombre, ultima_fecha, frecuencia_dias) ==
    LET i == IndexOfNombre(eqs, equipo_nombre)
    IN  IF i = 0
        THEN Result(eqs, mants, FALSE, 0, "", FALSE)
        ELSE LET Otros(m) == m.equipo_id # eqs[i].id
             IN  Result(eqs,
                        Append(SelectSeq(mants, Otros),
                               Mantenimiento(nuevo_id(mants), eqs[i].id,
                                             ultima_fecha, frecuencia_dias)),
                        TRUE, 0, "", TRUE)

\* save_mantenimiento(equipo_nombre, ultima_fecha, frecuencia_dias)
save_mantenimiento(eqs, mants, equipo_nombre, ultima_fecha, frecuencia_dias) ==
    LET i == IndexOfNombre(eqs, equipo_nombre)
    IN  IF i = 0
        THEN Result(eqs, mants, FALSE, 0, "", FALSE)
        ELSE Result(eqs,
                    Append(mants, Mantenimiento(nuevo_id(mants), eqs[i].id,
                                                ultima_fecha, frecuencia_dias)),
                    TRUE, 0, "", TRUE)

\* Mutant: delete_equipo that leaves the events of the record in the list.
delete_equipo_sin_cascada(eqs, mants, nombre) ==
    LET i == IndexOfNombre(eqs, nombre)
    IN  IF i = 0
        THEN Result(eqs, mants, TRUE, 0, "", FALSE)
        ELSE LET KeepE(e) == e.id # eqs[i].id
             IN  Result(SelectSeq(eqs, KeepE), mants, TRUE, 0, "", TRUE)

\* delete_equipo(nombre)
delete_equipo(eqs, mants, nombre) ==
    LET i == IndexOfNombre(eqs, nombre)
    IN  IF i = 0
        THEN Result(eqs, mants, TRUE, 0, "", FALSE)
        ELSE LET equipo_id == eqs[i].id
                 KeepM(m) == m.equipo_id # equipo_id
                 KeepE(e) == e.id # equipo_id
             IN  Result(SelectSeq(eqs, KeepE), SelectSeq(mants, KeepM),
                        TRUE, 0, "", TRUE)

\* Mutant: reset_mantenimiento that empties the whole event list.
reset_mantenimiento_todos(eqs, mants, equipo_nombre) ==
    LET i == IndexOfNombre(eqs, equipo_nombre)
    IN  IF i = 0
        THEN Result(eqs, mants, TRUE, 0, "", FALSE)
        ELSE Result(eqs, <<>>, TRUE, 0, "", TRUE)

\* reset_mantenimiento(equipo_nombre)
reset_mantenimiento(eqs, mants, equipo_nombre) ==
    LET i == IndexOfNombre(eqs, equipo_nombre)
    IN  IF i = 0
        THEN Result(eqs, mants, TRUE, 0, "", FALSE)
        ELSE LET equipo_id == eqs[i].id
                 KeepM(m) == m.equipo_id # equipo_id
             IN  Result(eqs, SelectSeq(mants, KeepM), TRUE, 0, "", TRUE)

\* Mutant: set_nota_equipo that stores the text whole.
set_nota_equipo_entera(eqs, mants, equipo_nombre, nota) ==
    LET i == IndexOfNombre(eqs, equipo_nombre)
    IN  IF i = 0
        THEN Result(eqs, mants, FALSE, 0, "", FALSE)
        ELSE Result([eqs EXCEPT ![i].nota = nota], mants, TRUE, 0, "", TRUE)

\* set_nota_equipo(equipo_nombre, nota)
set_nota_equipo(eqs, mants, equipo_nombre, nota) ==
    LET i == IndexOfNombre(eqs, equipo_nombre)
    IN  IF i = 0
        THEN Result(eqs, mants, FALSE, 0, "", FALSE)
        ELSE Result([eqs EXCEPT ![i].nota = Take(nota, NotaMax)], mants,
                    TRUE, 0, "", TRUE)

\* rename_equipo's three messages and its confirmation (accents dropped).
MsgVacio == "El nombre no puede estar vacio"
MsgYaExiste == "Ya existe un equipo con ese nombre"
MsgNoEncontrado == "Equipo no encontrado"
MsgRenombrado == "Renombrado correctamente"

\* Mutant: rename_equipo that looks for old_name before it looks at new_name.
rename_equipo_busca_antes(eqs, mants, old_name, new_name) ==
    LET i == IndexOfNombre(eqs, old_name)
        nuevo == strip(new_name)
    IN  IF i = 0
        THEN Result(eqs, mants, FALSE, 0, MsgNoEncontrado, FALSE)
        ELSE IF new_name = <<>> \/ Len(nuevo) = 0
        THEN Result(eqs, mants, FALSE, 0, MsgVacio, FALSE)
        ELSE IF \E k \in DOMAIN eqs : eqs[k].nombre = nuevo /\ nuevo # old_name
        THEN Result(eqs, mants, FALSE, 0, MsgYaExiste, FALSE)
        ELSE Result([eqs EXCEPT ![i].nombre = nuevo], mants,
                    TRUE, 0, MsgRenombrado, TRUE)

\* Mutant: rename_equipo that stores new_name as given, not stripped.
rename_equipo_sin_recortar(eqs, mants, old_name, new_name) ==
    IF new_name = <<>> \/ Len(strip(new_name)) = 0
    THEN Result(eqs, mants, FALSE, 0, MsgVacio, FALSE)
    ELSE LET nuevo == strip(new_name)
             i == IndexOfNombre(eqs, old_name)
         IN  IF \E k \in DOMAIN eqs : eqs[k].nombre = nuevo /\ nuevo # old_name
             THEN Result(eqs, mants, FALSE, 0, MsgYaExiste, FALSE)
             ELSE IF i # 0
             THEN Result([eqs EXCEPT ![i].nombre = new_name], mants,
                         TRUE, 0, MsgRenombrado, TRUE)
             ELSE Result(eqs, mants, FALSE, 0, MsgNoEncontrado, FALSE)

\* Mutant: rename_equipo without its "Verificar que no exista ya" loop.
rename_equipo_sin_verificar(eqs, mants, old_name, new_name) ==
    IF new_name = <<>> \/ Len(strip(new_name)) = 0
    THEN Result(eqs, mants, FALSE, 0, MsgVacio, FALSE)
    ELSE LET nuevo == strip(new_name)
             i == IndexOfNombre(eqs, old_name)
         IN  IF i # 0
             THEN Result([eqs EXCEPT ![i].nombre = nuevo], mants,
                         TRUE, 0, MsgRenombrado, TRUE)
             ELSE Result(eqs, mants, FALSE, 0, MsgNoEncontrado, FALSE)

\* rename_equipo(old_name, new_name)
rename_equipo(eqs, mants, old_name, new_name) ==
    IF new_name = <<>> \/ Len(strip(new_name)) = 0
    THEN Result(eqs, mants, FALSE, 0, MsgVacio, FALSE)
    ELSE LET nuevo == strip(new_name)
             i == IndexOfNombre(eqs, old_name)
         IN  IF \E k \in DOMAIN eqs : eqs[k].nombre = nuevo /\ nuevo # old_name
             THEN Result(eqs, mants, FALSE, 0, MsgYaExiste, FALSE)
             ELSE IF i # 0
             THEN Result([eqs EXCEPT ![i].nombre = nuevo], mants,
                         TRUE, 0, MsgRenombrado, TRUE)
             ELSE Result(eqs, mants, FALSE, 0, MsgNoEncontrado, FALSE)

\* The swap of change_equipo_position: the first record of the same tipo at
\* position destino takes posicion_actual, then the named record takes destino.
\* Mutant: the swap that moves the named record only.
Intercambio_sin_vecino(eqs, mants, i, destino) ==
    LET tipo == eqs[i].tipo
        Test(e) == e.tipo = tipo /\ e.posicion = destino
        j == FirstIndex(eqs, Test)
    IN  IF j = 0
        THEN Result(eqs, mants, FALSE, 0, "", FALSE)
        ELSE Result([eqs EXCEPT ![i].posicion = destino], mants, TRUE, 0, "", TRUE)

Intercambio(eqs, mants, i, destino) ==
    LET tipo == eqs[i].tipo
        posicion_actual == eqs[i].posicion
        Test(e) == e.tipo = tipo /\ e.posicion = destino
        j == FirstIndex(eqs, Test)
    IN  IF j = 0
        THEN Result(eqs, mants, FALSE, 0, "", FALSE)
        ELSE LET e1 == [eqs EXCEPT ![j].posicion = posicion_actual]
             IN  Result([e1 EXCEPT ![i].posicion = destino], mants,
                        TRUE, 0, "", TRUE)

\* change_equipo_position(nombre, direccion)
change_equipo_position(eqs, mants, nombre, direccion) ==
    LET i == IndexOfNombre(eqs, nombre)
    IN  IF i = 0
        THEN Result(eqs, mants, FALSE, 0, "", FALSE)
        ELSE IF direccion = "arriba" /\ eqs[i].posicion > 0
        THEN Intercambio(eqs, mants, i, eqs[i].posicion - 1)
        ELSE IF direccion = "abajo"
        THEN Intercambio(eqs, mants, i, eqs[i].posicion + 1)
        ELSE Result(eqs, mants, FALSE, 0, "", FALSE)

\* The number of equipment of one tipo: len(equipos_tipo).
CuentaTipo(eqs, tipo) == Cardinality({i \in DOMAIN eqs : eqs[i].tipo = tipo})

\* insert_equipo_at_position: the position after "Ajustar posicion".
Ajustar(posicion_deseada, n) ==
    LET p == IF posicion_deseada < 0 THEN 0 ELSE posicion_deseada
    IN  IF p > n THEN n ELSE p

\* Mutant: "Desplazar equipos" that leaves the record at the position itself.
Desplazar_estricto(eqs, tipo, posicion) ==
    [k \in DOMAIN eqs |->
        IF eqs[k].tipo = tipo /\ eqs[k].posicion > posicion
        THEN [eqs[k] EXCEPT !.posicion = eqs[k].posicion + 1]
        ELSE eqs[k]]

\* insert_equipo_at_position: "Desplazar equipos".
Desplazar(eqs, tipo, posicion) ==
    [k \in DOMAIN eqs |->
        IF eqs[k].tipo = tipo /\ eqs[k].posicion >= posicion
        THEN [eqs[k] EXCEPT !.posicion = eqs[k].posicion + 1]
        ELSE eqs[k]]

\* Mutant: insert_equipo_at_position that shifts before it counts the zone.
insert_desplaza_antes(eqs, mants, tipo, nombre, seccion, posicion_deseada) ==
    IF IndexOfNombre(eqs, nombre) # 0
    THEN Result(eqs, mants, FALSE, 0, "", FALSE)
    ELSE LET posicion == Ajustar(posicion_deseada, CuentaTipo(eqs, tipo))
             movidos == Desplazar(eqs, tipo, posicion)
         IN  IF CuentaTipo(eqs, tipo) >= ZonaCapacidad
             THEN Result(movidos, mants, FALSE, 0, "", FALSE)
             ELSE Result(Append(movidos, Equipo(nuevo_id(movidos), nombre, seccion,
                                                tipo, posicion, <<>>)),
                         mants, TRUE, 0, "", TRUE)

\* insert_equipo_at_position(tipo, nombre, seccion, posicion_deseada)
insert_equipo_at_position(eqs, mants, tipo, nombre, seccion, posicion_deseada) ==
    IF IndexOfNombre(eqs, nombre) # 0
    THEN Result(eqs, mants, FALSE, 0, "", FALSE)
    ELSE IF CuentaTipo(eqs, tipo) >= ZonaCapacidad
    THEN Result(eqs, mants, FALSE, 0, "", FALSE)
    ELSE LET posicion == Ajustar(posicion_deseada, CuentaTipo(eqs, tipo))
             movidos == Desplazar(eqs, tipo, posicion)
         IN  Result(Append(movidos, Equipo(nuevo_id(movidos), nombre, seccion, tipo,
                                           posicion, <<>>)),
                    mants, TRUE, 0, "", TRUE)

\* Mutant: borrar_historial_entre_fechas that keeps the events dated fecha_hasta.
borrar_historial_sin_extremo(eqs, mants, fecha_desde, fecha_hasta) ==
    LET Keep(m) == ~(/\ StrLeq(fecha_desde, m.ultima_fecha)
                     /\ StrLeq(m.ultima_fecha, fecha_hasta)
                     /\ m.ultima_fecha # fecha_hasta)
        quedan == SelectSeq(mants, Keep)
        borrados == Len(mants) - Len(quedan)
    IN  Result(eqs, quedan, TRUE, borrados, "", borrados > 0)

\* borrar_historial_entre_fechas(fecha_desde, fecha_hasta)
borrar_historial_entre_fechas(eqs, mants, fecha_desde, fecha_hasta) ==
    LET Keep(m) == ~(StrLeq(fecha_desde, m.ultima_fecha)
                     /\ StrLeq(m.ultima_fecha, fecha_hasta))
        quedan == SelectSeq(mants, Keep)
        borrados == Len(mants) - Len(quedan)
    IN  Result(eqs, quedan, TRUE, borrados, "", borrados > 0)

\* self.data: the three lists (tps: <<the catalog>>, or <<>> without the key).
Documento(eqs, mants, tps) == [equipos |-> eqs, mantenimientos |-> mants, tipos |-> tps]

\* Mutant: save() that writes nothing.
save_sin_escribir(eqs, mants, tps, io, stored) == stored

\* save(): the whole document is written; when the write fails (io = FALSE) the
\* stored document stays as it was.
save(eqs, mants, tps, io, stored) ==
    IF io THEN Documento(eqs, mants, tps) ELSE stored


(***************************************************************************)
(* open_add_dialog.guardar_equipo: the section the caller passes with a    *)
(* type code of the catalog.                                               *)
(***************************************************************************)
positivos ==
    {"carne", "pescado", "verdura", "lacteos", "charcuteria", "bebidas_frias",
     "leche_fresca", "zumos", "platos_preparados", "vitrina_lpc_ls",
     "mostrador_lpc", "murales_lpc", "mural_sushi", "mural_ensaladas",
     "camaras_refrigerado", "central_frigorifica_positiva"}

negativos ==
    {"isla_carne", "isla_verdura", "armario_verdura", "isla_pescado",
     "isla_helados", "armario_pescado_congelado", "isla_marisco", "isla_tartas",
     "camaras_congelado", "central_frigorifica_negativa"}

seccion_de(kind) ==
    IF kind \in positivos THEN "positivo"
    ELSE IF kind \in negativos THEN "negativo"
    ELSE IF kind \in {"aacc_lt_12", "aacc_gt_12"} THEN "aacc"
    ELSE IF kind = "murales_vitrinas_calientes" THEN "caliente"
    ELSE IF kind = "fosas_septicas" THEN "fosas"
    ELSE "otro"

(***************************************************************************)
(* buscar_equipos.  A letter with a tilde is one character, written here    *)
(* as the letter followed by "^" ("e^" is the e with an acute accent);      *)
(* "^" alone is the combining mark that NFD splits off it.                  *)
(***************************************************************************)
\* unicodedata.normalize("NFD", ch) of one character.
NFD(ch) ==
    CASE ch = "e^" -> <<"e", "^">>
      [] ch = "E^" -> <<"E", "^">>
      [] ch = "a^" -> <<"a", "^">>
      [] OTHER -> <<ch>>

\* unicodedata.category(ch) == "Mn"
EsMn(ch) == ch = "^"

Mayusculas ==
    <<"A", "B", "C", "D", "E", "F", "G", "H", "I", "J", "K", "L", "M",
      "N", "O", "P", "Q", "R", "S", "T", "U", "V", "W", "X", "Y", "Z">>
Minusculas ==
    <<"a", "b", "c", "d", "e", "f", "g", "h", "i", "j", "k", "l", "m",
      "n", "o", "p", "q", "r", "s", "t", "u", "v", "w", "x", "y", "z">>

\* str.lower() of one character.
lower(ch) ==
    IF \E k \in DOMAIN Mayusculas : Mayusculas[k] = ch
    THEN Minusculas[CHOOSE k \in DOMAIN Mayusculas : Mayusculas[k] = ch]
    ELSE ch

\* "".join of a sequence of strings.
RECURSIVE join(_)
join(ss) == IF ss = <<>> THEN <<>> ELSE Head(ss) \o join(Tail(ss))

\* buscar_equipos.limpiar_texto
limpiar_texto(texto) ==
    LET normalized == join([k \in DOMAIN texto |-> NFD(texto[k])])
        NoMn(ch) == ~EsMn(ch)
        sin_tildes == SelectSeq(normalized, NoMn)
    IN  [k \in DOMAIN sin_tildes |-> lower(sin_tildes[k])]

\* s.startswith(p)
startswith(s, p) == Len(p) <= Len(s) /\ SubSeq(s, 1, Len(p)) = p

\* sub in s
Contiene(s, sub) ==
    \E k \in 0..(Len(s) - Len(sub)) : SubSeq(s, k + 1, k + Len(sub)) = sub

\* s.replace(a, b) for characters a and b
replace(s, a, b) == [k \in DOMAIN s |-> IF s[k] = a THEN b ELSE s[k]]

\* s.split(sep) for a character sep
RECURSIVE split(_, _)
split(s, sep) ==
    LET cortes == {k \in DOMAIN s : s[k] = sep}
    IN  IF cortes = {} THEN <<s>>
        ELSE LET k == CHOOSE k \in cortes : \A j \in cortes : k <= j
             IN  <<SubSeq(s, 1, k - 1)>> \o split(SubSeq(s, k + 1, Len(s)), sep)

\* Mutant: puntuacion without the 500 of a name that starts with the query.
puntuacion_sin_prefijo(normalized, nombre_limpio) ==
    IF normalized = nombre_limpio THEN 1000
    ELSE IF \/ Contiene(nombre_limpio, <<"_">> \o normalized \o <<"_">>)
            \/ Contiene(nombre_limpio, <<"_">> \o normalized)
            \/ startswith(nombre_limpio, normalized \o <<"_">>)
    THEN 400
    ELSE IF Contiene(nombre_limpio, normalized) THEN 300
    ELSE 0

\* Mutant: puntuacion without the 300 of a name that holds the query, which
\* leaves such a name to the scores by parts.
puntuacion_sin_subcadena(normalized, nombre_limpio) ==
    IF normalized = nombre_limpio THEN 1000
    ELSE IF startswith(nombre_limpio, normalized) THEN 500
    ELSE IF \/ Contiene(nombre_limpio, <<"_">> \o normalized \o <<"_">>)
            \/ Contiene(nombre_limpio, <<"_">> \o normalized)
            \/ startswith(nombre_limpio, normalized \o <<"_">>)
    THEN 400
    ELSE LET partes == split(replace(nombre_limpio, "-", "_"), "_")
         IN  IF \E k \in DOMAIN partes :
                    Contiene(partes[k], normalized) /\ startswith(partes[k], normalized)
             THEN 200
             ELSE IF \E k \in DOMAIN partes : Contiene(partes[k], normalized)
             THEN 100
             ELSE 0

\* buscar_equipos: the puntuacion of one name for one query, both cleaned.
puntuacion(normalized, nombre_limpio) ==
    IF normalized = nombre_limpio THEN 1000
    ELSE IF startswith(nombre_limpio, normalized) THEN 500
    ELSE IF \/ Contiene(nombre_limpio, <<"_">> \o normalized \o <<"_">>)
            \/ Contiene(nombre_limpio, <<"_">> \o normalized)
            \/ startswith(nombre_limpio, normalized \o <<"_">>)
    THEN 400
    ELSE IF Contiene(nombre_limpio, normalized) THEN 300
    ELSE LET partes == split(replace(nombre_limpio, "-", "_"), "_")
         IN  IF \E k \in DOMAIN partes :
                    Contiene(partes[k], normalized) /\ startswith(partes[k], normalized)
             THEN 200
             ELSE IF \E k \in DOMAIN partes : Contiene(partes[k], normalized)
             THEN 100
             ELSE 0

\* Mutant: an ascending sort turned round, equal keys in reverse order.
RECURSIVE sort_invertido(_)
sort_invertido(rs) ==
    IF rs = <<>> THEN <<>>
    ELSE LET k == CHOOSE k \in DOMAIN rs :
                      /\ \A j \in DOMAIN rs : rs[j].puntuacion <= rs[k].puntuacion
                      /\ \A j \in (k + 1)..Len(rs) : rs[j].puntuacion < rs[k].puntuacion
         IN  <<rs[k]>> \o sort_invertido(SubSeq(rs, 1, k - 1) \o SubSeq(rs, k + 1, Len(rs)))

\* list.sort(key=puntuacion, reverse=True): stable, equal keys keep their order.
RECURSIVE sort_reverse(_)
sort_reverse(rs) ==
    IF rs = <<>> THEN <<>>
    ELSE LET k == CHOOSE k \in DOMAIN rs :
                      /\ \A j \in DOMAIN rs : rs[j].puntuacion <= rs[k].puntuacion
                      /\ \A j \in 1..(k - 1) : rs[j].puntuacion < rs[k].puntuacion
         IN  <<rs[k]>> \o sort_reverse(SubSeq(rs, 1, k - 1) \o SubSeq(rs, k + 1, Len(rs)))

\* buscar_equipos(query)
buscar_equipos(eqs, query) ==
    IF query = <<>> THEN <<>>
    ELSE LET normalized == limpiar_texto(strip(query))
         IN  IF normalized = <<>> THEN <<>>
             ELSE LET todos == [k \in DOMAIN eqs |->
                                   [nombre |-> eqs[k].nombre,
                                    seccion |-> eqs[k].seccion,
                                    tipo |-> eqs[k].tipo,
                                    puntuacion |->
                                        puntuacion(normalized,
                                                   limpiar_texto(eqs[k].nombre))]]
                      Positiva(r) == r.puntuacion > 0
                      resultados == sort_reverse(SelectSeq(todos, Positiva))
                      primeros == Take(resultados, MaxResultados)
                  IN  [k \in DOMAIN primeros |->
                          [nombre |-> primeros[k].nombre,
                           seccion |-> primeros[k].seccion,
                           tipo |-> primeros[k].tipo]]

(***************************************************************************)
(* The inputs of the calls.                                                *)
(***************************************************************************)
NA == <<"a">>
NB == <<"b">>
NC == <<"c">>
NPa == <<" ", "a">>            \* " a": strip() gives "a"
NVacio == <<>>                  \* ""
NBlanco == <<" ">>              \* " ": empty after strip()

Direcciones == {"arriba", "abajo"}
Notas == {<<"n">>}
F1 == <<"2", "0", "2", "4", "-", "0", "1", "-", "1", "5">>
F2 == <<"2", "0", "2", "4", "-", "0", "2", "-", "1", "0">>
FMala == <<"x">>                \* "x": no date at all
Frecuencias == {30}

(***************************************************************************)
(* Actions: one per operation.  last records the call.                     *)
(***************************************************************************)
Llamada(op) ==
    [op |-> op, nombre |-> <<>>, nuevo |-> <<>>, tipo |-> "", seccion |-> "",
     posicion |-> 0, direccion |-> "", nota |-> <<>>, desde |-> <<>>,
     hasta |-> <<>>, freq |-> 0, io |-> TRUE,
     ret |-> TRUE, n |-> 0, msg |-> "", saves |-> FALSE,
     query |-> <<>>, res |-> <<>>, now |-> <<>>, servicios |-> {},
     json_str |-> <<>>]

\* The call returns r: the document becomes r's, and when the call reached
\* self.save() the stored document is written (or not, when the write fails).
Aplicar(r, call) ==
    /\ equipos' = r.equipos
    /\ mantenimientos' = r.mantenimientos
    /\ tipos' = tipos
    /\ disk' = IF r.saves THEN save(r.equipos, r.mantenimientos, tipos, call.io, disk)
                        ELSE disk
    /\ last' = [call EXCEPT !.ret = r.ret, !.n = r.n, !.msg = r.msg, !.saves = r.saves]

SaveEquipo(nombre, tipo, posicion, io) ==
    Aplicar(save_equipo(equipos, mantenimientos, nombre, seccion_de(tipo), tipo, posicion),
            [Llamada("save_equipo") EXCEPT !.nombre = nombre, !.tipo = tipo,
                !.seccion = seccion_de(tipo), !.posicion = posicion, !.io = io])

InsertEquipoAtPosition(tipo, nombre, posicion_deseada, io) ==
    Aplicar(insert_equipo_at_position(equipos, mantenimientos, tipo, nombre,
                                      seccion_de(tipo), posicion_deseada),
            [Llamada("insert_equipo_at_position") EXCEPT !.nombre = nombre,
                !.tipo = tipo, !.seccion = seccion_de(tipo),
                !.posicion = posicion_deseada, !.io = io])

RenameEquipo(old_name, new_name, io) ==
    Aplicar(rename_equipo(equipos, mantenimientos, old_name, new_name),
            [Llamada("rename_equipo") EXCEPT !.nombre = old_name, !.nuevo = new_name,
                !.io = io])

DeleteEquipo(nombre, io) ==
    Aplicar(delete_equipo(equipos, mantenimientos, nombre),
            [Llamada("delete_equipo") EXCEPT !.nombre = nombre, !.io = io])

ChangeEquipoPosition(nombre, direccion, io) ==
    Aplicar(change_equipo_position(equipos, mantenimientos, nombre, direccion),
            [Llamada("change_equipo_position") EXCEPT !.nombre = nombre,
                !.direccion = direccion, !.io = io])

SetNotaEquipo(nombre, nota, io) ==
    Aplicar(set_nota_equipo(equipos, mantenimientos, nombre, nota),
            [Llamada("set_nota_equipo") EXCEPT !.nombre = nombre, !.nota = nota,
                !.io = io])

SaveMantenimiento(nombre, fecha, freq, io) ==
    Aplicar(save_mantenimiento(equipos, mantenimientos, nombre, fecha, freq),
            [Llamada("save_mantenimiento") EXCEPT !.nombre = nombre, !.desde = fecha,
                !.freq = freq, !.io = io])

ResetMantenimiento(nombre, io) ==
    Aplicar(reset_mantenimiento(equipos, mantenimientos, nombre),
            [Llamada("reset_mantenimiento") EXCEPT !.nombre = nombre, !.io = io])

BorrarHistorialEntreFechas(desde, hasta, io) ==
    Aplicar(borrar_historial_entre_fechas(equipos, mantenimientos, desde, hasta),
            [Llamada("borrar_historial_entre_fechas") EXCEPT !.desde = desde,
                !.hasta = hasta, !.io = io])

\* buscar_equipos(query): a query, the document is as before.
BuscarEquipos(query) ==
    /\ UNCHANGED <<equipos, mantenimientos, tipos, disk>>
    /\ last' = [Llamada("buscar_equipos") EXCEPT !.query = query,
                    !.res = buscar_equipos(equipos, query)]

(***************************************************************************)
(* The store after load() on a first run: empty lists, the seeded catalog, *)
(* written once by _initialize_default_data.                               *)
(***************************************************************************)
Init ==
    /\ equipos = <<>>
    /\ mantenimientos = <<>>
    /\ tipos = <<tipos_basicos>>
    /\ disk = Documento(equipos, mantenimientos, tipos)
    /\ last = Llamada("load")

\* A creating call is made only while the ids and the positions are within the
\* bounds (a call on an existing name creates nothing and is always made).
Cabe(nombre, max_id, tope) ==
    \/ IndexOfNombre(equipos, nombre) # 0
    \/ /\ nuevo_id(equipos) <= max_id
       /\ \A i \in DOMAIN equipos : equipos[i].posicion < tope

CabeEquipo(nombre) == Cabe(nombre, MaxIdEquipo, TopePosicion)

CabeMant(nombre) ==
    \/ IndexOfNombre(equipos, nombre) = 0
    \/ nuevo_id(mantenimientos) <= MaxIdMant

(***************************************************************************)
(* Spec: any sequence of the nine mutating operations on one zone, with    *)
(* names that differ only by surrounding whitespace; every write succeeds. *)
(***************************************************************************)
NombresAlta == {NA, NPa}                          \* names given to the creating calls
NombresUso == {NA, NB, NPa}                       \* names the other calls look up
NombresNuevos == {NA, NB, NPa, NVacio, NBlanco}   \* rename_equipo's new_name

Next ==
    \/ \E nombre \in NombresAlta :
          CabeEquipo(nombre) /\ SaveEquipo(nombre, "carne", 0, TRUE)
    \/ \E nombre \in NombresAlta, posicion \in {0, ZonaCapacidad} :
          CabeEquipo(nombre) /\ InsertEquipoAtPosition("carne", nombre, posicion, TRUE)
    \/ \E old_name \in NombresUso, new_name \in NombresNuevos :
          RenameEquipo(old_name, new_name, TRUE)
    \/ \E nombre \in NombresUso : DeleteEquipo(nombre, TRUE)
    \/ \E nombre \in NombresUso, direccion \in Direcciones :
          ChangeEquipoPosition(nombre, direccion, TRUE)
    \/ \E nombre \in {NA}, nota \in Notas : SetNotaEquipo(nombre, nota, TRUE)
    \/ \E nombre \in {NA, NB}, fecha \in {F1}, freq \in Frecuencias :
          CabeMant(nombre) /\ SaveMantenimiento(nombre, fecha, freq, TRUE)
    \/ \E nombre \in {NA, NB} : ResetMantenimiento(nombre, TRUE)
    \/ \E rango \in {<<F1, F1>>, <<F2, F2>>} :
          BorrarHistorialEntreFechas(rango[1], rango[2], TRUE)

Spec == Init /\ [][Next]_vars

(***************************************************************************)
(* SpecPosiciones: the operations that set positions (save_equipo,         *)
(* insert_equipo_at_position, change_equipo_position, delete_equipo) on    *)
(* three names and two zones.                                              *)
(***************************************************************************)
NombresPos == {NA, NB, NC}
TiposPos == {"carne", "isla_carne"}
PosicionesDeseadas == {-1, 1, ZonaCapacidad}
CabePos(nombre) == Cabe(nombre, MaxIdPos, TopePos)

NextPosiciones ==
    \/ \E nombre \in NombresPos, tipo \in TiposPos :
          CabePos(nombre) /\ SaveEquipo(nombre, tipo, 0, TRUE)
    \/ \E nombre \in NombresPos, tipo \in TiposPos, posicion \in PosicionesDeseadas :
          CabePos(nombre) /\ InsertEquipoAtPosition(tipo, nombre, posicion, TRUE)
    \/ \E nombre \in NombresPos, direccion \in Direcciones :
          ChangeEquipoPosition(nombre, direccion, TRUE)
    \/ \E nombre \in NombresPos : DeleteEquipo(nombre, TRUE)

SpecPosiciones == Init /\ [][NextPosiciones]_vars

(***************************************************************************)
(* SpecAlta: save_equipo on records that carry a note and events, with     *)
(* writes that may fail.                                                   *)
(***************************************************************************)
NombresSave == {NA, NB}

\* The outcomes of a write: a write may fail only when the stored document is
\* the document in memory, so at most one failed write is outstanding.
Escrituras ==
    IF disk = Documento(equipos, mantenimientos, tipos)
    THEN BOOLEAN ELSE {TRUE}

NextAlta ==
    \/ \E nombre \in NombresSave, tipo \in TiposPos, posicion \in 0..MaxPosicion,
          io \in Escrituras :
          CabeEquipo(nombre) /\ SaveEquipo(nombre, tipo, posicion, io)
    \/ \E nombre \in NombresSave, nota \in Notas, io \in Escrituras :
          SetNotaEquipo(nombre, nota, io)
    \/ \E nombre \in NombresSave, io \in Escrituras :
          CabeMant(nombre) /\ SaveMantenimiento(nombre, F1, 30, io)
    \/ \E nombre \in NombresSave, io \in Escrituras : DeleteEquipo(nombre, io)

SpecAlta == Init /\ [][NextAlta]_vars

(***************************************************************************)
(* SpecZonaLlena: zone "carne" one record short of its capacity, as        *)
(* ZonaCapacidad - 1 calls of insert_equipo_at_position at the end of the  *)
(* empty zone leave it (names "1", "2", ...), then save_equipo and         *)
(* insert_equipo_at_position on that zone and on the empty zone "pescado", *)
(* and save_mantenimiento on the first record.                             *)
(***************************************************************************)
Digito(d) == <<"0", "1", "2", "3", "4", "5", "6", "7", "8", "9">>[d + 1]
NombreNum(k) == IF k < 10 THEN <<Digito(k)>> ELSE <<Digito(k \div 10), Digito(k % 10)>>

RECURSIVE Poblar(_)
Poblar(k) ==
    IF k = 0 THEN <<>>
    ELSE insert_equipo_at_position(Poblar(k - 1), <<>>, "carne", NombreNum(k),
                                   seccion_de("carne"), k - 1).equipos

InitZonaLlena ==
    /\ equipos = Poblar(ZonaCapacidad - 1)
    /\ mantenimientos = <<>>
    /\ tipos = <<tipos_basicos>>
    /\ disk = Documento(equipos, mantenimientos, tipos)
    /\ last = Llamada("load")

TiposZona == {"carne", "pescado"}
NombresZona == {NombreNum(1), NombreNum(Len(equipos) + 1)}
CabeZona(nombre) ==
    IndexOfNombre(equipos, nombre) # 0 \/ Len(equipos) < ZonaCapacidad + MaxZonaExtra

NextZonaLlena ==
    \/ \E nombre \in NombresZona, tipo \in TiposZona :
          CabeZona(nombre) /\ SaveEquipo(nombre, tipo, 0, TRUE)
    \/ \E nombre \in NombresZona, tipo \in TiposZona, posicion \in {-1, 5, 99} :
          CabeZona(nombre) /\ InsertEquipoAtPosition(tipo, nombre, posicion, TRUE)
    \/ CabeMant(NombreNum(1)) /\ SaveMantenimiento(NombreNum(1), F1, 30, TRUE)

SpecZonaLlena == InitZonaLlena /\ [][NextZonaLlena]_vars

(***************************************************************************)
(* obtener_historial_filtrado.  A datetime is <<year, month, day>> (the    *)
(* time of day plays no part: every parsed date is at midnight and now is  *)
(* only formatted as a date).                                              *)
(***************************************************************************)
EsDigito(ch) == \E d \in 0..9 : Digito(d) = ch
ValorDigito(ch) == CHOOSE d \in 0..9 : Digito(d) = ch

RECURSIVE Valor(_)
Valor(s) == IF s = <<>> THEN 0 ELSE 10 * Valor(SubSeq(s, 1, Len(s) - 1)) + ValorDigito(s[Len(s)])

EsBisiesto(y) == (y % 4 = 0 /\ y % 100 # 0) \/ y % 400 = 0
DiasDelMes(y, m) ==
    IF m = 2 THEN (IF EsBisiesto(y) THEN 29 ELSE 28)
    ELSE IF m \in {4, 6, 9, 11} THEN 30 ELSE 31

\* datetime.strptime(s, "%Y-%m-%d"): <<>> for ValueError, else <<datetime>>.
\* %Y is four digits, %m and %d one or two digits of a month and of a day of it.
strptime(s) ==
    LET partes == split(s, "-")
        Digitos(p) == p # <<>> /\ \A k \in DOMAIN p : EsDigito(p[k])
    IN  IF Len(partes) # 3 THEN <<>>
        ELSE IF ~(Digitos(partes[1]) /\ Digitos(partes[2]) /\ Digitos(partes[3])) THEN <<>>
        ELSE IF Len(partes[1]) # 4 \/ Len(partes[2]) > 2 \/ Len(partes[3]) > 2 THEN <<>>
        ELSE LET y == Valor(partes[1])
                 m == Valor(partes[2])
                 d == Valor(partes[3])
             IN  IF y >= 1 /\ m \in 1..12 /\ d >= 1 /\ d <= DiasDelMes(y, m)
                 THEN << <<y, m, d>> >> ELSE <<>>

Num2(n) == <<Digito(n \div 10), Digito(n % 10)>>
Num4(n) == <<Digito(n \div 1000), Digito((n \div 100) % 10)>> \o Num2(n % 100)

\* dt.strftime("%Y-%m-%d") and dt.strftime("%d/%m/%Y")
strftime_ymd(dt) == Num4(dt[1]) \o <<"-">> \o Num2(dt[2]) \o <<"-">> \o Num2(dt[3])
strftime_dmy(dt) == Num2(dt[3]) \o <<"/">> \o Num2(dt[2]) \o <<"/">> \o Num4(dt[1])

\* a < b on datetimes
AntesQue(a, b) ==
    \/ a[1] < b[1]
    \/ a[1] = b[1] /\ a[2] < b[2]
    \/ a[1] = b[1] /\ a[2] = b[2] /\ a[3] < b[3]

\* date.toordinal(): the number of the day, 1 for 0001-01-01.
RECURSIVE DiasAntesDelMes(_, _)
DiasAntesDelMes(y, m) ==
    IF m = 1 THEN 0 ELSE DiasAntesDelMes(y, m - 1) + DiasDelMes(y, m - 1)
toordinal(dt) ==
    LET y == dt[1] - 1
    IN  365 * y + (y \div 4) - (y \div 100) + (y \div 400)
            + DiasAntesDelMes(dt[1], dt[2]) + dt[3]

\* dt - timedelta(days=n), for n of no more than a few years
menos_dias(dt, n) ==
    LET o == toordinal(dt) - n
        y == CHOOSE y \in (dt[1] - (n \div 365) - 1)..dt[1] :
                 toordinal(<<y, 1, 1>>) <= o /\ o < toordinal(<<y + 1, 1, 1>>)
        m == CHOOSE m \in 1..12 :
                 /\ toordinal(<<y, m, 1>>) <= o
                 /\ o < toordinal(<<y, m, 1>>) + DiasDelMes(y, m)
    IN  <<y, m, o - toordinal(<<y, m, 1>>) + 1>>

\* a < b on str
StrLt(a, b) == a # b /\ StrLeq(a, b)

\* list.sort(key=fecha_dt, reverse=True) on (fecha_dt, texto) pairs: stable.
RECURSIVE sort_fechas(_)
sort_fechas(ps) ==
    IF ps = <<>> THEN <<>>
    ELSE LET k == CHOOSE k \in DOMAIN ps :
                      /\ \A j \in DOMAIN ps : ~AntesQue(ps[k][1], ps[j][1])
                      /\ \A j \in 1..(k - 1) : AntesQue(ps[j][1], ps[k][1])
         IN  <<ps[k]>> \o sort_fechas(SubSeq(ps, 1, k - 1) \o SubSeq(ps, k + 1, Len(ps)))

\* obtener_historial_filtrado with the two bounds applied only when both are
\* given.
obtener_historial_ambos(eqs, mants, now, fecha_desde, fecha_hasta, servicios) ==
    LET hace_24_meses == strftime_ymd(menos_dias(now, Dias24Meses))
        ambos == fecha_desde # <<>> /\ fecha_hasta # <<>>
        Pasa(mant) ==
            LET fecha_valor == mant.ultima_fecha
                fecha_dt == strptime(fecha_valor)
            IN  /\ fecha_valor # <<>>
                /\ ~StrLt(fecha_valor, hace_24_meses)
                /\ fecha_dt # <<>>
                /\ ambos => ~AntesQue(fecha_dt[1], strptime(fecha_desde)[1])
                /\ ambos => ~AntesQue(strptime(fecha_hasta)[1], fecha_dt[1])
        Cuenta(eq) == servicios = {} \/ eq.tipo \in servicios
        Lista(eq) ==
            LET Suyo(mant) == mant.equipo_id = eq.id /\ Pasa(mant)
                suyos == SelectSeq(mants, Suyo)
                pares == [k \in DOMAIN suyos |->
                             LET dt == strptime(suyos[k].ultima_fecha)[1]
                             IN  <<dt, strftime_dmy(dt)>>]
                orden == sort_fechas(pares)
            IN  [k \in DOMAIN orden |-> orden[k][2]]
        con_lista == {i \in DOMAIN eqs : Cuenta(eqs[i]) /\ Lista(eqs[i]) # <<>>}
        contados == {par \in (DOMAIN eqs) \X (DOMAIN mants) :
                        /\ Cuenta(eqs[par[1]])
                        /\ mants[par[2]].equipo_id = eqs[par[1]].id
                        /\ Pasa(mants[par[2]])}
    IN  [historial |-> [nombre \in {eqs[i].nombre : i \in con_lista} |->
                           Lista(eqs[CHOOSE i \in con_lista : eqs[i].nombre = nombre])],
         total |-> Cardinality(contados)]

\* obtener_historial_filtrado(fecha_desde, fecha_hasta, servicios) called at
\* now.  A bound that is <<>> (None or "") and a servicios that is {} (None or
\* empty) are not given; a given bound is a date strptime accepts.  The
\* result is [historial, total], historial a function from names to texts.
obtener_historial_filtrado(eqs, mants, now, fecha_desde, fecha_hasta, servicios) ==
    LET hace_24_meses == strftime_ymd(menos_dias(now, Dias24Meses))
        Pasa(mant) ==
            LET fecha_valor == mant.ultima_fecha
                fecha_dt == strptime(fecha_valor)
            IN  /\ fecha_valor # <<>>
                /\ ~StrLt(fecha_valor, hace_24_meses)
                /\ fecha_dt # <<>>
                /\ fecha_desde # <<>> => ~AntesQue(fecha_dt[1], strptime(fecha_desde)[1])
                /\ fecha_hasta # <<>> => ~AntesQue(strptime(fecha_hasta)[1], fecha_dt[1])
        Cuenta(eq) == servicios = {} \/ eq.tipo \in servicios
        Lista(eq) ==
            LET Suyo(mant) == mant.equipo_id = eq.id /\ Pasa(mant)
                suyos == SelectSeq(mants, Suyo)
                pares == [k \in DOMAIN suyos |->
                             LET dt == strptime(suyos[k].ultima_fecha)[1]
                             IN  <<dt, strftime_dmy(dt)>>]
                orden == sort_fechas(pares)
            IN  [k \in DOMAIN orden |-> orden[k][2]]
        con_lista == {i \in DOMAIN eqs : Cuenta(eqs[i]) /\ Lista(eqs[i]) # <<>>}
        \* total += 1 for every event of every record that reaches the append
        contados == {par \in (DOMAIN eqs) \X (DOMAIN mants) :
                        /\ Cuenta(eqs[par[1]])
                        /\ mants[par[2]].equipo_id = eqs[par[1]].id
                        /\ Pasa(mants[par[2]])}
    IN  [historial |-> [nombre \in {eqs[i].nombre : i \in con_lista} |->
                           Lista(eqs[CHOOSE i \in con_lista : eqs[i].nombre = nombre])],
         total |-> Cardinality(contados)]

\* obtener_historial_filtrado: a query, the document is as before.
ObtenerHistorialFiltrado(now, fecha_desde, fecha_hasta, servicios) ==
    /\ UNCHANGED <<equipos, mantenimientos, tipos, disk>>
    /\ last' = [Llamada("obtener_historial_filtrado") EXCEPT !.now = now,
                    !.desde = fecha_desde, !.hasta = fecha_hasta,
                    !.servicios = servicios,
                    !.res = obtener_historial_filtrado(equipos, mantenimientos, now,
                                                       fecha_desde, fecha_hasta,
                                                       servicios)]

(***************************************************************************)
(* SpecHistorial: the event list of two records: save_mantenimiento with   *)
(* dates in and out of append order, a date that is none and a negative    *)
(* frequency, on present and absent names; reset_mantenimiento,            *)
(* delete_equipo and borrar_historial_entre_fechas.                        *)
(***************************************************************************)
NombresHist == {NA, NB}
NombresHistUso == {NA, NB, NC}
ServiciosHist == {<<F2, 30>>, <<F1, -1>>, <<FMala, 0>>}
RangosHist == {<<F1, F1>>, <<F1, F2>>, <<F2, F1>>, <<F2, FMala>>}
CabeHist(nombre) ==
    IndexOfNombre(equipos, nombre) = 0 \/ nuevo_id(mantenimientos) <= MaxIdHist

NextHistorial ==
    \/ \E nombre \in NombresHist :
          CabeEquipo(nombre) /\ SaveEquipo(nombre, "carne", 0, TRUE)
    \/ \E nombre \in NombresHistUso, s \in ServiciosHist :
          CabeHist(nombre) /\ SaveMantenimiento(nombre, s[1], s[2], TRUE)
    \/ \E nombre \in NombresHistUso : ResetMantenimiento(nombre, TRUE)
    \/ \E nombre \in NombresHistUso : DeleteEquipo(nombre, TRUE)
    \/ \E rango \in RangosHist :
          BorrarHistorialEntreFechas(rango[1], rango[2], TRUE)

SpecHistorial == Init /\ [][NextHistorial]_vars

(***************************************************************************)
(* SpecNotas: set_nota_equipo with texts shorter than, as long as and       *)
(* longer than NotaMax, on present and absent names, among save_equipo,    *)
(* insert_equipo_at_position, rename_equipo and delete_equipo.             *)
(***************************************************************************)
\* A text of n characters: "a", then "n"s, and "x" as its last character.
Texto(n) == [k \in 1..n |-> IF k = n THEN "x" ELSE IF k = 1 THEN "a" ELSE "n"]
NotasLargas == {<<>>, Texto(2), Texto(NotaMax), Texto(NotaMax + 1), Texto(NotaMax + 2)}

NextNotas ==
    \/ \E nombre \in {NA, NB} :
          CabeEquipo(nombre) /\ SaveEquipo(nombre, "carne", 0, TRUE)
    \/ \E nombre \in {NA, NB} :
          CabeEquipo(nombre) /\ InsertEquipoAtPosition("carne", nombre, 0, TRUE)
    \/ \E nombre \in {NA, NB, NC}, nota \in NotasLargas :
          SetNotaEquipo(nombre, nota, TRUE)
    \/ \E old_name \in {NA, NB} : RenameEquipo(old_name, NC, TRUE)
    \/ \E nombre \in {NA, NB, NC} : DeleteEquipo(nombre, TRUE)

SpecNotas == Init /\ [][NextNotas]_vars

(***************************************************************************)
(* SpecBusqueda: buscar_equipos on a store of names that score 500, 400    *)
(* and 300 for the query "cafe", three of them or MaxResultados - 1 (as    *)
(* that many insert_equipo_at_position calls on three zones leave it), to  *)
(* which names of every kind of match are added in any order.              *)
(***************************************************************************)
Cafe == <<"c", "a", "f", "e">>
CafeConTilde == <<" ", "C", "a", "f", "e^", " ">>
Zz == <<"z", "z">>
MuralCafe1 == <<"M", "u", "r", "a", "l", "_", "C", "a", "f", "e^", "_", "1">>
CafeteraVieja ==
    <<"C", "a", "f", "e", "t", "e", "r", "a", "_", "v", "i", "e", "j", "a">>
MuralCafetera ==
    <<"M", "u", "r", "a", "l", "_", "c", "a", "f", "e", "t", "e", "r", "a">>
BarCafe == <<"B", "a", "r", "_", "c", "a", "f", "e">>
GuionCafe == <<"x", "-", "c", "a", "f", "e">>
SoloCafe == <<"C", "a", "f", "e">>

Consultas == {Cafe, CafeConTilde, Zz, NVacio, NBlanco}
NombresBusqueda ==
    {MuralCafe1, CafeteraVieja, MuralCafetera, BarCafe, GuionCafe, SoloCafe, Zz}

\* The k-th name of the populated store: "cafeK", "f_cafeK" or "fcafeK".
Relleno(k) ==
    (CASE k % 3 = 0 -> <<>> [] k % 3 = 1 -> <<"f", "_">> [] OTHER -> <<"f">>)
        \o Cafe \o NombreNum(k)
ZonaRelleno(k) == <<"carne", "pescado", "verdura">>[((k - 1) \div ZonaCapacidad) + 1]

\* The store k calls of insert_equipo_at_position at the end of the zones
\* leave: ids and positions in order of insertion, ZonaCapacidad to a zone.
PoblarBusqueda(k) ==
    [i \in 1..k |->
        Equipo(i, Relleno(i), seccion_de(ZonaRelleno(i)), ZonaRelleno(i),
               (i - 1) % ZonaCapacidad, <<>>)]

InitBusqueda ==
    /\ equipos \in {PoblarBusqueda(3), PoblarBusqueda(MaxResultados - 1)}
    /\ mantenimientos = <<>>
    /\ tipos = <<tipos_basicos>>
    /\ disk = Documento(equipos, mantenimientos, tipos)
    /\ last = Llamada("load")

\* At most MaxBusquedaExtra ids are given out on top of those of the populated store.
CabeBusqueda(nombre) ==
    \/ IndexOfNombre(equipos, nombre) # 0
    \/ nuevo_id(equipos)
          <= Cardinality({k \in DOMAIN equipos : equipos[k].nombre \notin NombresBusqueda})
               + MaxBusquedaExtra

NextBusqueda ==
    \/ \E nombre \in NombresBusqueda :
          /\ CabeBusqueda(nombre)
          /\ InsertEquipoAtPosition("lacteos", nombre, ZonaCapacidad, TRUE)
    \/ \E query \in Consultas : BuscarEquipos(query)

SpecBusqueda == InitBusqueda /\ [][NextBusqueda]_vars

(***************************************************************************)
(* SpecFiltro: obtener_historial_filtrado on the events of two records of  *)
(* two zones: dates inside the window, on its edge, 730 days and 24 months *)
(* before now, in the future and no date, with each bound given or not.    *)
(***************************************************************************)
FBorde == strftime_ymd(<<2022, 3, 1>>)
FFutura == strftime_ymd(<<2030, 1, 1>>)
ServiciosFiltro ==
    {<<NA, F2>>, <<NA, F1>>, <<NA, FBorde>>, <<NA, FMala>>, <<NB, F1>>, <<NB, FFutura>>}
TipoFiltro(nombre) == IF nombre = NA THEN "carne" ELSE "isla_carne"
\* now, fecha_desde, fecha_hasta, servicios
ConsultasFiltro ==
    {<< <<2024, 3, 1>>, <<>>, <<>>, {} >>,
     << <<2024, 2, 20>>, <<>>, <<>>, {} >>,
     << <<2024, 3, 1>>, F2, <<>>, {} >>,
     << <<2024, 3, 1>>, <<>>, F1, {"carne", "pescado"} >>,
     << <<2024, 3, 1>>, F1, F2, {} >>,
     << <<2024, 2, 20>>, F1, F1, {"isla_carne"} >>}
CabeFiltro(nombre) ==
    IndexOfNombre(equipos, nombre) = 0 \/ nuevo_id(mantenimientos) <= MaxIdFiltro

NextFiltro ==
    \/ \E nombre \in {NA, NB} :
          CabeEquipo(nombre) /\ SaveEquipo(nombre, TipoFiltro(nombre), 0, TRUE)
    \/ \E s \in ServiciosFiltro :
          CabeFiltro(s[1]) /\ SaveMantenimiento(s[1], s[2], 30, TRUE)
    \/ \E c \in ConsultasFiltro : ObtenerHistorialFiltrado(c[1], c[2], c[3], c[4])

SpecFiltro == Init /\ [][NextFiltro]_vars

(***************************************************************************)
(* exportar_datos_json and importar_datos_json: json.dumps(self.data) and  *)
(* json.loads(json_str).  A Python value json handles is None, an int, a   *)
(* str, a list or a dict (its pairs in insertion order).  A JSON text is   *)
(* the sequence of its tokens; a string token carries the characters       *)
(* between its quotes as written, escapes included, and a number token its *)
(* digits.  The white space between tokens (indent=2) is left out.  A str  *)
(* is a sequence of characters; a section or type code, on which no        *)
(* operation works character by character, is one piece of it.             *)
(***************************************************************************)
PyNone == [t |-> "None"]
PyInt(n) == [t |-> "int", n |-> n]
PyStr(s) == [t |-> "str", s |-> s]
PyList(l) == [t |-> "list", l |-> l]
PyDict(d) == [t |-> "dict", d |-> d]

Tok(k) == [k |-> k, s |-> <<>>]
TokStr(s) == [k |-> "str", s |-> s]
TokNum(s) == [k |-> "num", s |-> s]

\* Mutant: a string written between the quotes as it is.
escapar_nada(s) == s

\* json.encoder.py_encode_basestring: the characters of s as written between
\* the quotes (ensure_ascii=False: only quote, backslash and control
\* characters are escaped).
RECURSIVE escapar(_)
escapar(s) ==
    IF s = <<>> THEN <<>>
    ELSE (CASE Head(s) = "\"" -> <<"\\", "\"">>
            [] Head(s) = "\\" -> <<"\\", "\\">>
            [] Head(s) = "\n" -> <<"\\", "n">>
            [] Head(s) = "\t" -> <<"\\", "t">>
            [] OTHER -> <<Head(s)>>) \o escapar(Tail(s))

\* json.decoder.scanstring on the characters between the quotes: <<the str>>,
\* or <<>> for the JSONDecodeError of a bare quote (the string ends there and
\* the rest is no token), a bare control character or an invalid escape.
RECURSIVE desescapar(_)
desescapar(s) ==
    IF s = <<>> THEN << <<>> >>
    ELSE IF Head(s) \in {"\"", "\n", "\t"} THEN <<>>
    ELSE IF Head(s) = "\\"
         THEN IF Len(s) < 2 \/ s[2] \notin {"\"", "\\", "/", "n", "t"} THEN <<>>
              ELSE LET c == CASE s[2] = "n" -> "\n" [] s[2] = "t" -> "\t" [] OTHER -> s[2]
                       resto == desescapar(SubSeq(s, 3, Len(s)))
                   IN  IF resto = <<>> THEN <<>> ELSE << <<c>> \o resto[1] >>
    ELSE LET resto == desescapar(Tail(s))
         IN  IF resto = <<>> THEN <<>> ELSE << <<Head(s)>> \o resto[1] >>

\* int.__repr__: the decimal digits of n, after "-" when n is negative.
RECURSIVE Decimal(_)
Decimal(n) == IF n < 10 THEN <<Digito(n)>> ELSE Decimal(n \div 10) \o <<Digito(n % 10)>>
repr_int(n) == IF n < 0 THEN <<"-">> \o Decimal(-n) ELSE Decimal(n)

\* The int a number token stands for: <<n>>, or <<>> when the token is no JSON
\* integer (the texts of the model hold no other number).
int_de(s) ==
    LET d == IF s # <<>> /\ Head(s) = "-" THEN Tail(s) ELSE s
    IN  IF d = <<>> \/ (\E k \in DOMAIN d : ~EsDigito(d[k])) \/ (Len(d) > 1 /\ d[1] = "0")
        THEN <<>>
        ELSE IF d = s THEN <<Valor(d)>> ELSE <<-Valor(d)>>

\* json.dumps(v)
RECURSIVE dumps(_)
dumps(v) ==
    CASE v.t = "None" -> <<Tok("null")>>
      [] v.t = "int" -> <<TokNum(repr_int(v.n))>>
      [] v.t = "str" -> <<TokStr(escapar(v.s))>>
      [] v.t = "list" ->
            LET RECURSIVE items(_)
                items(k) == IF k > Len(v.l) THEN <<>>
                            ELSE (IF k > 1 THEN <<Tok(",")>> ELSE <<>>)
                                     \o dumps(v.l[k]) \o items(k + 1)
            IN  <<Tok("[")>> \o items(1) \o <<Tok("]")>>
      [] v.t = "dict" ->
            LET RECURSIVE pairs(_)
                pairs(k) == IF k > Len(v.d) THEN <<>>
                            ELSE (IF k > 1 THEN <<Tok(",")>> ELSE <<>>)
                                     \o <<TokStr(escapar(v.d[k][1])), Tok(":")>>
                                     \o dumps(v.d[k][2]) \o pairs(k + 1)
            IN  <<Tok("{")>> \o pairs(1) \o <<Tok("}")>>

\* d[key] = v on the pairs of a dict: a key already there keeps its place.
Poner(d, key, v) ==
    IF \E k \in DOMAIN d : d[k][1] = key
    THEN [k \in DOMAIN d |-> IF d[k][1] = key THEN <<key, v>> ELSE d[k]]
    ELSE Append(d, <<key, v>>)

\* The scanner of json.decoder at token i of the text: the value that starts
\* there and the index after it, or no value (JSONDecodeError).
Leido(v, i) == [ok |-> TRUE, v |-> v, i |-> i]
NoLeido == [ok |-> FALSE, v |-> PyNone, i |-> 0]

RECURSIVE scan_once(_, _), JSONArray(_, _, _), JSONObject(_, _, _)
scan_once(txt, i) ==
    IF i > Len(txt) THEN NoLeido
    ELSE CASE txt[i].k = "null" -> Leido(PyNone, i + 1)
           [] txt[i].k = "num" ->
                 LET n == int_de(txt[i].s)
                 IN  IF n = <<>> THEN NoLeido ELSE Leido(PyInt(n[1]), i + 1)
           [] txt[i].k = "str" ->
                 LET s == desescapar(txt[i].s)
                 IN  IF s = <<>> THEN NoLeido ELSE Leido(PyStr(s[1]), i + 1)
           [] txt[i].k = "[" ->
                 IF i + 1 <= Len(txt) /\ txt[i + 1].k = "]"
                 THEN Leido(PyList(<<>>), i + 2)
                 ELSE JSONArray(txt, i + 1, <<>>)
           [] txt[i].k = "{" ->
                 IF i + 1 <= Len(txt) /\ txt[i + 1].k = "}"
                 THEN Leido(PyDict(<<>>), i + 2)
                 ELSE JSONObject(txt, i + 1, <<>>)
           [] OTHER -> NoLeido

\* at the start of an element of an array whose earlier elements are acc
JSONArray(txt, i, acc) ==
    LET r == scan_once(txt, i)
    IN  IF ~r.ok \/ r.i > Len(txt) THEN NoLeido
        ELSE IF txt[r.i].k = "," THEN JSONArray(txt, r.i + 1, Append(acc, r.v))
        ELSE IF txt[r.i].k = "]" THEN Leido(PyList(Append(acc, r.v)), r.i + 1)
        ELSE NoLeido

\* at the start of a key of an object whose earlier pairs are acc
JSONObject(txt, i, acc) ==
    IF i + 1 > Len(txt) \/ txt[i].k # "str" \/ txt[i + 1].k # ":" THEN NoLeido
    ELSE LET key == desescapar(txt[i].s)
             r == scan_once(txt, i + 2)
         IN  IF key = <<>> \/ ~r.ok \/ r.i > Len(txt) THEN NoLeido
             ELSE IF txt[r.i].k = ","
                  THEN JSONObject(txt, r.i + 1, Poner(acc, key[1], r.v))
             ELSE IF txt[r.i].k = "}"
                  THEN Leido(PyDict(Poner(acc, key[1], r.v)), r.i + 1)
             ELSE NoLeido

\* json.loads(txt): <<the value>>, or <<>> for JSONDecodeError (no value, or
\* extra data after it).
loads(txt) ==
    LET r == scan_once(txt, 1)
    IN  IF r.ok /\ r.i = Len(txt) + 1 THEN <<r.v>> ELSE <<>>

\* self.data as the Python value json.dumps is given: the keys of a record in
\* the order the code writes them (save_equipo, save_mantenimiento,
\* _initialize_default_data, without the display name of a type).
Clave(k) == <<k>>
py_equipo(e) ==
    PyDict(<< <<Clave("id"), PyInt(e.id)>>, <<Clave("nombre"), PyStr(e.nombre)>>,
              <<Clave("seccion"), PyStr(<<e.seccion>>)>>,
              <<Clave("tipo"), PyStr(<<e.tipo>>)>>,
              <<Clave("posicion"), PyInt(e.posicion)>>,
              <<Clave("nota"), PyStr(e.nota)>> >>)
py_mantenimiento(m) ==
    PyDict(<< <<Clave("id"), PyInt(m.id)>>, <<Clave("equipo_id"), PyInt(m.equipo_id)>>,
              <<Clave("ultima_fecha"), PyStr(m.ultima_fecha)>>,
              <<Clave("frecuencia_dias"), PyInt(m.frecuencia_dias)>> >>)
py_tipo(tp) ==
    PyDict(<< <<Clave("id"), PyInt(tp.id)>>, <<Clave("codigo"), PyStr(<<tp.codigo>>)>>,
              <<Clave("seccion"), PyStr(<<tp.seccion>>)>> >>)
py_data(eqs, mants, tps) ==
    PyDict(<< <<Clave("equipos"), PyList([k \in DOMAIN eqs |-> py_equipo(eqs[k])])>>,
              <<Clave("mantenimientos"),
                PyList([k \in DOMAIN mants |-> py_mantenimiento(mants[k])])>> >>
           \o IF tps = <<>> THEN <<>>
              ELSE << <<Clave("tipos"),
                        PyList([k \in DOMAIN tps[1] |-> py_tipo(tps[1][k])])>> >>)

\* d[key] on the pairs of a dict, and key in d
Item(d, key) == d[CHOOSE k \in DOMAIN d : d[k][1] = Clave(key)][2]
Tiene(d, key) == \E k \in DOMAIN d : d[k][1] = Clave(key)

\* The lists of the model for a Python value v that is a dict with lists of
\* records under "equipos" and "mantenimientos", with or without "tipos".
de_equipo(v) ==
    Equipo(Item(v.d, "id").n, Item(v.d, "nombre").s, Item(v.d, "seccion").s[1],
           Item(v.d, "tipo").s[1], Item(v.d, "posicion").n, Item(v.d, "nota").s)
de_mantenimiento(v) ==
    Mantenimiento(Item(v.d, "id").n, Item(v.d, "equipo_id").n,
                  Item(v.d, "ultima_fecha").s, Item(v.d, "frecuencia_dias").n)
de_tipo(v) == Tipo(Item(v.d, "id").n, Item(v.d, "codigo").s[1], Item(v.d, "seccion").s[1])
de_data(v) ==
    Documento([k \in DOMAIN Item(v.d, "equipos").l |->
                  de_equipo(Item(v.d, "equipos").l[k])],
              [k \in DOMAIN Item(v.d, "mantenimientos").l |->
                  de_mantenimiento(Item(v.d, "mantenimientos").l[k])],
              IF Tiene(v.d, "tipos")
              THEN << [k \in DOMAIN Item(v.d, "tipos").l |->
                          de_tipo(Item(v.d, "tipos").l[k])] >>
              ELSE <<>>)

\* exportar_datos_json()
exportar_datos_json(eqs, mants, tps) == dumps(py_data(eqs, mants, tps))

\* importar_datos_json(json_str): whatever json.loads returns becomes
\* self.data and is saved; only the exception of json.loads makes it fail.
importar_datos_json(eqs, mants, tps, json_str) ==
    LET v == loads(json_str)
    IN  IF v = <<>>
        THEN [data |-> Documento(eqs, mants, tps), ret |-> FALSE, saves |-> FALSE]
        ELSE [data |-> de_data(v[1]), ret |-> TRUE, saves |-> TRUE]

\* exportar_datos_json: a query, the document is as before.
ExportarDatosJson ==
    /\ UNCHANGED <<equipos, mantenimientos, tipos, disk>>
    /\ last' = [Llamada("exportar_datos_json") EXCEPT
                    !.res = exportar_datos_json(equipos, mantenimientos, tipos)]

ImportarDatosJson(json_str, io) ==
    \E r \in {importar_datos_json(equipos, mantenimientos, tipos, json_str)} :
        /\ equipos' = r.data.equipos
        /\ mantenimientos' = r.data.mantenimientos
        /\ tipos' = r.data.tipos
        /\ disk' = IF r.saves
                   THEN save(r.data.equipos, r.data.mantenimientos, r.data.tipos, io, disk)
                   ELSE disk
        /\ last' = [Llamada("importar_datos_json") EXCEPT !.json_str = json_str,
                        !.io = io, !.ret = r.ret, !.saves = r.saves]

(***************************************************************************)
(* SpecImport: a record whose name and note hold a quote, a backslash, a   *)
(* line feed and a tab, with events of a negative frequency;               *)
(* exportar_datos_json; and importar_datos_json of the export of the       *)
(* document, of the export of another document, of a text cut short, of    *)
(* the empty text, of a text followed by one more token and of an object   *)
(* without "tipos".  Every write succeeds.                                 *)
(***************************************************************************)
NComillas == <<"\"", "\\">>        \* a quote and a backslash
NotaLinea == <<"n", "\n", "\t">>   \* a line feed and a tab

OtroDocumento ==
    Documento(<<Equipo(1, NB, "negativo", "isla_carne", 0, <<>>)>>,
              <<Mantenimiento(1, 1, F2, 7)>>,
              << <<Tipo(21, "isla_carne", "negativo")>> >>)

\* The texts given to importar_datos_json.
Textos ==
    LET propio == exportar_datos_json(equipos, mantenimientos, tipos)
    IN  {propio,
         exportar_datos_json(OtroDocumento.equipos, OtroDocumento.mantenimientos,
                             OtroDocumento.tipos),
         SubSeq(propio, 1, Len(propio) - 1),
         <<>>,
         propio \o <<Tok("]")>>,
         exportar_datos_json(<<>>, <<>>, <<>>)}

CabeMantImport(nombre) ==
    IndexOfNombre(equipos, nombre) = 0 \/ nuevo_id(mantenimientos) <= MaxIdImport

NextImport ==
    \/ SaveEquipo(NComillas, "carne", 0, TRUE)
    \/ SetNotaEquipo(NComillas, NotaLinea, TRUE)
    \/ \E nombre \in {NComillas, NB} :
          CabeMantImport(nombre) /\ SaveMantenimiento(nombre, F1, -1, TRUE)
    \/ ExportarDatosJson
    \/ \E json_str \in Textos : ImportarDatosJson(json_str, TRUE)

SpecImport == Init /\ [][NextImport]_vars

(***************************************************************************)
(* SpecEscritura: every mutating operation of the store on one zone,       *)
(* importar_datos_json of the export of the document and of an object      *)
(* without "tipos" included, and the query buscar_equipos; every write     *)
(* succeeds.                                                               *)
(***************************************************************************)
NombresEscritura == {NA, NB}
CabeEscritura(nombre) == Cabe(nombre, MaxIdEscritura, TopeEscritura)
CabeMantEscritura(nombre) ==
    IndexOfNombre(equipos, nombre) = 0 \/ nuevo_id(mantenimientos) <= MaxIdMant

NextEscritura ==
    \/ \E nombre \in NombresEscritura :
          CabeEscritura(nombre) /\ SaveEquipo(nombre, "carne", 0, TRUE)
    \/ \E nombre \in NombresEscritura :
          CabeEscritura(nombre) /\ InsertEquipoAtPosition("carne", nombre, 0, TRUE)
    \/ \E old_name \in {NA}, new_name \in {NB, NVacio} :
          RenameEquipo(old_name, new_name, TRUE)
    \/ \E nombre \in NombresEscritura : DeleteEquipo(nombre, TRUE)
    \/ \E nombre \in {NA}, direccion \in Direcciones :
          ChangeEquipoPosition(nombre, direccion, TRUE)
    \/ \E nombre \in NombresEscritura : SetNotaEquipo(nombre, NotaLinea, TRUE)
    \/ \E nombre \in NombresEscritura :
          CabeMantEscritura(nombre) /\ SaveMantenimiento(nombre, F1, 30, TRUE)
    \/ \E nombre \in {NA} : ResetMantenimiento(nombre, TRUE)
    \/ BorrarHistorialEntreFechas(F1, F1, TRUE)
    \/ BuscarEquipos(NA)
    \/ \E json_str \in {exportar_datos_json(equipos, mantenimientos, tipos),
                         exportar_datos_json(<<>>, <<>>, <<>>)} :
          ImportarDatosJson(json_str, TRUE)

SpecEscritura == Init /\ [][NextEscritura]_vars

(***************************************************************************)
(* SpecFallo: the nine mutating operations and importar_datos_json on one  *)
(* zone with writes that may fail (a write fails only when the stored      *)
(* document is the document in memory, so one failed write at most is      *)
(* outstanding).                                                           *)
(***************************************************************************)
NextFallo ==
    \/ \E nombre \in NombresEscritura, io \in Escrituras :
          CabeEscritura(nombre) /\ SaveEquipo(nombre, "carne", 0, io)
    \/ \E nombre \in NombresEscritura, io \in Escrituras :
          CabeEscritura(nombre) /\ InsertEquipoAtPosition("carne", nombre, 0, io)
    \/ \E old_name \in {NA}, new_name \in {NB}, io \in Escrituras :
          RenameEquipo(old_name, new_name, io)
    \/ \E nombre \in NombresEscritura, io \in Escrituras : DeleteEquipo(nombre, io)
    \/ \E nombre \in {NA}, direccion \in Direcciones, io \in Escrituras :
          ChangeEquipoPosition(nombre, direccion, io)
    \/ \E nombre \in NombresEscritura, io \in Escrituras :
          SetNotaEquipo(nombre, NotaLinea, io)
    \/ \E nombre \in NombresEscritura, io \in Escrituras :
          CabeMantEscritura(nombre) /\ SaveMantenimiento(nombre, F1, 30, io)
    \/ \E nombre \in {NA}, io \in Escrituras : ResetMantenimiento(nombre, io)
    \/ \E io \in Escrituras : BorrarHistorialEntreFechas(F1, F1, io)
    \/ \E json_str \in {exportar_datos_json(equipos, mantenimientos, tipos)},
          io \in Escrituras :
          ImportarDatosJson(json_str, io)

SpecFallo == Init /\ [][NextFallo]_vars

(***************************************************************************)
(* calculate_days(equipo_nombre), called at now.  Here a datetime is       *)
(* <<year, month, day, second of the day>>: the dates parsed are at        *)
(* midnight and now is at any second of its day (the fraction of a second  *)
(* is left out: it only adds to the time elapsed since midnight).          *)
(***************************************************************************)
\* date.fromordinal(o)
fromordinal(o) ==
    LET y == CHOOSE y \in (o \div 366)..(o \div 365 + 1) :
                 toordinal(<<y, 1, 1>>) <= o /\ o < toordinal(<<y + 1, 1, 1>>)
        m == CHOOSE m \in 1..12 :
                 /\ toordinal(<<y, m, 1>>) <= o
                 /\ o < toordinal(<<y, m, 1>>) + DiasDelMes(y, m)
    IN  <<y, m, o - toordinal(<<y, m, 1>>) + 1>>

\* (proxima_fecha - datetime.now()).days, proxima_fecha at midnight of the day
\* of ordinal proxima_ordinal: the floor of the duration in days.
dias_restantes(proxima_ordinal, now) ==
    ((proxima_ordinal - toordinal(now)) * SegundosDia - now[4]) \div SegundosDia

\* calculate_days: <<>> for (None, None), else <<dias_restantes, text>>.
calculate_days(eqs, mants, equipo_nombre, now) ==
    LET data == get_equipo_data(eqs, mants, equipo_nombre)
    IN  IF data = <<>> THEN <<>>
        ELSE IF data[1].date = <<>> \/ data[1].date[1] = <<>> THEN <<>>
        ELSE IF data[1].freq = <<>> \/ data[1].freq[1] = 0 THEN <<>>
        ELSE LET ultima_fecha == strptime(data[1].date[1])
             IN  IF ultima_fecha = <<>> THEN <<>>
                 ELSE LET proxima == toordinal(ultima_fecha[1]) + data[1].freq[1]
                      IN  <<dias_restantes(proxima, now),
                            strftime_dmy(fromordinal(proxima))>>

\* calculate_days: a query, the document is as before.
CalculateDays(equipo_nombre, now) ==
    /\ UNCHANGED <<equipos, mantenimientos, tipos, disk>>
    /\ last' = [Llamada("calculate_days") EXCEPT !.nombre = equipo_nombre,
                    !.now = now,
                    !.res = calculate_days(equipos, mantenimientos, equipo_nombre, now)]

(***************************************************************************)
(* SpecDias: a record with events dated 30, 10 and 4 days before           *)
(* 2024-02-14, of frequency 30, 4 and 0, and one whose date is no date;    *)
(* calculate_days on 2024-02-14 and on the day after, at midnight, one     *)
(* second later, at noon and one second before the next midnight.          *)
(***************************************************************************)
FDiez == strftime_ymd(<<2024, 2, 4>>)
FechasDias == {F1, FDiez, F2, FMala}
FrecuenciasDias == {30, 4, 0}
Ahora == {<<2024, 2, d, s>> : d \in {14, 15}, s \in {0, 1, SegundosDia \div 2, SegundosDia - 1}}
CabeDias(nombre) ==
    IndexOfNombre(equipos, nombre) = 0 \/ nuevo_id(mantenimientos) <= MaxIdDias

NextDias ==
    \/ SaveEquipo(NA, "carne", 0, TRUE)
    \/ \E fecha \in FechasDias, freq \in FrecuenciasDias :
          CabeDias(NA) /\ SaveMantenimiento(NA, fecha, freq, TRUE)
    \/ \E nombre \in {NA, NB}, now \in Ahora : CalculateDays(nombre, now)

SpecDias == Init /\ [][NextDias]_vars

(***************************************************************************)
(* SpecHuecos: from zone "carne" with ZonaCapacidad - 1 records at the     *)
(* positions 0, 1, ... (as that many calls of insert_equipo_at_position    *)
(* leave it), calls of insert_equipo_at_position at the start and at the   *)
(* end, of delete_equipo and of change_equipo_position, and of no other    *)
(* operation.                                                              *)
(***************************************************************************)
NombresHuecos == {NombreNum(1), NombreNum(ZonaCapacidad)}
\* A record is created only while the new id is within MaxHuecos of the
\* capacity and every position is below ZonaCapacidad + MaxHuecos - 2 (for
\* MaxHuecos = 2: while every position is in the range of the zone).
CabeHuecos(nombre) ==
    /\ nuevo_id(equipos) < ZonaCapacidad + MaxHuecos
    /\ \A i \in DOMAIN equipos : equipos[i].posicion < ZonaCapacidad + MaxHuecos - 2

NextHuecos ==
    \/ \E nombre \in NombresHuecos, posicion \in {0, 99} :
          CabeHuecos(nombre) /\ InsertEquipoAtPosition("carne", nombre, posicion, TRUE)
    \/ \E nombre \in NombresHuecos : DeleteEquipo(nombre, TRUE)
    \/ \E direccion \in Direcciones :
          ChangeEquipoPosition(NombreNum(ZonaCapacidad), direccion, TRUE)

SpecHuecos == InitZonaLlena /\ [][NextHuecos]_vars

(***************************************************************************)
(* SpecIds: the nine mutating operations, and no import, on two names of   *)
(* one zone, with ids up to MaxIdIds: records and events are removed from  *)
(* the start and from the end of their lists and new ones are created      *)
(* after that.                                                             *)
(***************************************************************************)
NombresIds == {NA, NB}
CabeIds(nombre) == Cabe(nombre, MaxIdIds, TopeIds)
CabeMantIds(nombre) ==
    IndexOfNombre(equipos, nombre) = 0 \/ nuevo_id(mantenimientos) <= MaxIdIds

NextIds ==
    \/ \E nombre \in NombresIds : CabeIds(nombre) /\ SaveEquipo(nombre, "carne", 0, TRUE)
    \/ \E nombre \in NombresIds :
          CabeIds(nombre) /\ InsertEquipoAtPosition("carne", nombre, 0, TRUE)
    \/ RenameEquipo(NA, NC, TRUE)
    \/ \E nombre \in NombresIds : DeleteEquipo(nombre, TRUE)
    \/ ChangeEquipoPosition(NA, "abajo", TRUE)
    \/ SetNotaEquipo(NA, <<"n">>, TRUE)
    \/ \E nombre \in NombresIds :
          CabeMantIds(nombre) /\ SaveMantenimiento(nombre, F1, 30, TRUE)
    \/ ResetMantenimiento(NA, TRUE)
    \/ BorrarHistorialEntreFechas(F1, F1, TRUE)

SpecIds == Init /\ [][NextIds]_vars

(***************************************************************************)
(* Claims.  A property of one call is an action property: last' is the     *)
(* call, the unprimed variables the document before it, the primed ones    *)
(* the document after it.                                                  *)
(***************************************************************************)
Es(op) == last'.op = op
DocumentoIgual == equipos' = equipos /\ mantenimientos' = mantenimientos

\* C1: in every state reached by the nine mutating operations (no import), no
\* two Equipment records have the same name.
C1_NombresUnicos ==
    \A i, j \in DOMAIN equipos : i # j => equipos[i].nombre # equipos[j].nombre

\* C1 witness: a rename to a name another record holds has just been refused,
\* with two records in the store.
C1_Testigo ==
    /\ Len(equipos) >= 2
    /\ last.op = "rename_equipo"
    /\ last.msg = MsgYaExiste

\* C2 (as claimed): at most ZonaCapacidad Equipment share a typeCode.
C2_ZonaCapacidad ==
    \A i \in DOMAIN equipos : CuentaTipo(equipos, equipos[i].tipo) <= ZonaCapacidad

\* C3 (as claimed): after every successful insertAtPosition the zone has one
\* record more and no two records of the zone share a position.
C3_InsertSinRepetidos ==
    [][(Es("insert_equipo_at_position") /\ last'.ret) =>
         /\ CuentaTipo(equipos', last'.tipo) = CuentaTipo(equipos, last'.tipo) + 1
         /\ \A i, j \in DOMAIN equipos' :
               (i # j /\ equipos'[i].tipo = last'.tipo /\ equipos'[j].tipo = last'.tipo)
               => equipos'[i].posicion # equipos'[j].posicion]_vars

\* C4: insertAtPosition fails when the name belongs to any Equipment or when the
\* zone holds ZonaCapacidad records, whatever the desired position, and then
\* leaves the document (positions, ids, events) as it was.
C4_InsertFalla ==
    [][(/\ Es("insert_equipo_at_position")
        /\ \/ \E k \in DOMAIN equipos : equipos[k].nombre = last'.nombre
           \/ Cardinality({k \in DOMAIN equipos : equipos[k].tipo = last'.tipo})
                 >= ZonaCapacidad)
       => (~last'.ret /\ DocumentoIgual)]_vars

\* C4 witness: an insert of a new name at an in-range position has been refused
\* on a full zone that has an event.
C4_Testigo ==
    /\ last.op = "insert_equipo_at_position"
    /\ ~last.ret
    /\ last.posicion = 5
    /\ \A k \in DOMAIN equipos : equipos[k].nombre # last.nombre
    /\ CuentaTipo(equipos, last.tipo) = ZonaCapacidad
    /\ mantenimientos # <<>>

\* C5: a successful insertAtPosition clamps the desired position to [0, n], n
\* the number of records of the zone, moves up by one every record of the zone
\* at or above the clamped position, leaves every other record as it was, and
\* appends a record at the clamped position with an empty note and id max + 1.
C5_InsertDesplaza ==
    [][(Es("insert_equipo_at_position") /\ last'.ret) =>
         LET zona == {k \in DOMAIN equipos : equipos[k].tipo = last'.tipo}
             n == Cardinality(zona)
             d == last'.posicion
             p == IF d < 0 THEN 0 ELSE IF d > n THEN n ELSE d
             ids == {equipos[k].id : k \in DOMAIN equipos}
             nuevo == equipos'[Len(equipos) + 1]
         IN  /\ Len(equipos') = Len(equipos) + 1
             /\ \A k \in DOMAIN equipos :
                   IF k \in zona /\ equipos[k].posicion >= p
                   THEN equipos'[k] =
                            [equipos[k] EXCEPT !.posicion = equipos[k].posicion + 1]
                   ELSE equipos'[k] = equipos[k]
             /\ nuevo.nombre = last'.nombre
             /\ nuevo.tipo = last'.tipo
             /\ nuevo.seccion = last'.seccion
             /\ nuevo.posicion = p
             /\ nuevo.nota = <<>>
             /\ \A x \in ids : x < nuevo.id
             /\ nuevo.id = 1 \/ (nuevo.id - 1) \in ids
             /\ mantenimientos' = mantenimientos]_vars

\* C5 witness: an insert in the middle of a zone has succeeded: the new record is
\* at position 1, between a record left at 0 and a record moved to 2.
C5_Testigo ==
    /\ last.op = "insert_equipo_at_position"
    /\ last.ret
    /\ last.posicion = 1
    /\ Len(equipos) = 3
    /\ equipos[3].nombre = last.nombre
    /\ equipos[3].posicion = 1
    /\ \E i, j \in 1..2 :
          /\ equipos[i].tipo = last.tipo /\ equipos[i].posicion = 0
          /\ equipos[j].tipo = last.tipo /\ equipos[j].posicion = 2

\* C6: changePosition exchanges the positions of the named record and of a
\* record of the same zone one position up or down when there is one, changing
\* nothing else; with no such record, and for "arriba" at position 0, the
\* document is unchanged.  The positions of every zone, counted with
\* repetition, are the same before and after.
C6_CambioPosicion ==
    [][Es("change_equipo_position") =>
         LET nombrados == {k \in DOMAIN equipos : equipos[k].nombre = last'.nombre}
             Veces(eqs, tipo, pos) ==
                 Cardinality({k \in DOMAIN eqs :
                                 eqs[k].tipo = tipo /\ eqs[k].posicion = pos})
         IN  /\ mantenimientos' = mantenimientos
             /\ Len(equipos') = Len(equipos)
             /\ \A k \in DOMAIN equipos, m \in DOMAIN equipos :
                   Veces(equipos', equipos[k].tipo, equipos[m].posicion)
                       = Veces(equipos, equipos[k].tipo, equipos[m].posicion)
             /\ IF nombrados = {}
                THEN equipos' = equipos
                ELSE LET i == CHOOSE k \in nombrados : TRUE
                         paso == IF last'.direccion = "arriba" THEN -1 ELSE 1
                         vecinos == {k \in DOMAIN equipos :
                                        /\ equipos[k].tipo = equipos[i].tipo
                                        /\ equipos[k].posicion
                                              = equipos[i].posicion + paso}
                     IN  IF vecinos = {}
                            \/ (last'.direccion = "arriba" /\ equipos[i].posicion = 0)
                         THEN equipos' = equipos /\ ~last'.ret
                         ELSE /\ last'.ret
                              /\ \E j \in vecinos :
                                    equipos' =
                                      [equipos EXCEPT
                                         ![i].posicion = equipos[j].posicion,
                                         ![j].posicion = equipos[i].posicion]]_vars

\* C6 witness: a move has exchanged two records of a zone of three.
C6_Testigo ==
    /\ last.op = "change_equipo_position"
    /\ last.ret
    /\ Len(equipos) = 3
    /\ \A k \in DOMAIN equipos : equipos[k].tipo = equipos[1].tipo
    /\ \E k \in DOMAIN equipos :
          equipos[k].nombre = last.nombre /\ equipos[k].posicion # k - 1

\* The three failures of rename_equipo, as a call can be judged before it runs.
NuevoRecortado == strip(last'.nuevo)
NuevoVacio == NuevoRecortado = <<>>
NuevoEsDeOtro ==
    \E k \in DOMAIN equipos :
        equipos[k].nombre = NuevoRecortado /\ equipos[k].nombre # last'.nombre
ViejoAusente == \A k \in DOMAIN equipos : equipos[k].nombre # last'.nombre
FallaCon(msg) == ~last'.ret /\ last'.msg = msg /\ DocumentoIgual

\* C7 (as claimed): renameEquipment fails with "name required" when newName is
\* empty after trimming, with "name collision" when the trimmed newName belongs
\* to another record, and with "not found" when no record is named oldName,
\* each of the three whatever the other two; the document is unchanged.
C7_TresFallos ==
    [][Es("rename_equipo") =>
         /\ NuevoVacio => FallaCon(MsgVacio)
         /\ NuevoEsDeOtro => FallaCon(MsgYaExiste)
         /\ ViejoAusente => FallaCon(MsgNoEncontrado)]_vars

\* C7 (amended): the three failures are tested in that order: "name required"
\* when newName is empty after trimming; else "name collision" when the trimmed
\* newName belongs to another record; else "not found" when no record is named
\* oldName.  In each case the document is unchanged.
C7_TresFallosEnOrden ==
    [][Es("rename_equipo") =>
         /\ NuevoVacio => FallaCon(MsgVacio)
         /\ (~NuevoVacio /\ NuevoEsDeOtro) => FallaCon(MsgYaExiste)
         /\ (~NuevoVacio /\ ~NuevoEsDeOtro /\ ViejoAusente)
               => FallaCon(MsgNoEncontrado)]_vars

\* C7 witness: a rename of a name no record has, to a blank name, has been
\* refused as "name required", with a record in the store.
C7_Testigo ==
    /\ last.op = "rename_equipo"
    /\ last.msg = MsgVacio
    /\ last.nuevo = NBlanco
    /\ equipos # <<>>
    /\ \A k \in DOMAIN equipos : equipos[k].nombre # last.nombre

\* What get_equipo_data reports of the date and frequency of a name.
FechaFrecuencia(eqs, mants, nombre) ==
    LET d == get_equipo_data(eqs, mants, nombre)
    IN  IF d = <<>> THEN <<>> ELSE <<d[1].date, d[1].freq>>

\* One record was named oldName, and the call changed its name and nothing else.
SoloCambiaNombre ==
    /\ mantenimientos' = mantenimientos
    /\ Len(equipos') = Len(equipos)
    /\ \E i \in DOMAIN equipos :
          /\ equipos[i].nombre = last'.nombre
          /\ equipos' = [equipos EXCEPT ![i].nombre = equipos'[i].nombre]

\* C8 (as claimed): a successful rename changes only the name of the record
\* named oldName, to newName, and getEquipmentDetail(newName) afterwards reports
\* the date and frequency getEquipmentDetail(oldName) reported before.
C8_RenombraSoloNombre ==
    [][(Es("rename_equipo") /\ last'.ret) =>
         /\ SoloCambiaNombre
         /\ FechaFrecuencia(equipos', mantenimientos', last'.nuevo) # <<>>
         /\ FechaFrecuencia(equipos', mantenimientos', last'.nuevo)
               = FechaFrecuencia(equipos, mantenimientos, last'.nombre)]_vars

\* C8 (amended): a successful rename changes only the name of the record named
\* oldName, to newName trimmed, and getEquipmentDetail(newName trimmed)
\* afterwards reports the date and frequency getEquipmentDetail(oldName)
\* reported before.
C8_RenombraRecortado ==
    [][(Es("rename_equipo") /\ last'.ret) =>
         /\ SoloCambiaNombre
         /\ \A i \in DOMAIN equipos :
               equipos[i].nombre = last'.nombre => equipos'[i].nombre = NuevoRecortado
         /\ FechaFrecuencia(equipos', mantenimientos', NuevoRecortado) # <<>>
         /\ FechaFrecuencia(equipos', mantenimientos', NuevoRecortado)
               = FechaFrecuencia(equipos, mantenimientos, last'.nombre)]_vars

\* C8 witness: a record with an event has been renamed with a padded newName,
\* with another record in the store.
C8_Testigo ==
    /\ last.op = "rename_equipo"
    /\ last.ret
    /\ last.nuevo = NPa
    /\ last.nombre = NB
    /\ Len(equipos) >= 2
    /\ FechaFrecuencia(equipos, mantenimientos, NA) = <<(<<F1>>), (<<30>>)>>

\* C9 (as claimed): for every name a of an existing record, renameEquipment(a, a)
\* returns success and leaves every record as it was.
C9_RenombraIgual ==
    [][(/\ Es("rename_equipo")
        /\ last'.nuevo = last'.nombre
        /\ \E k \in DOMAIN equipos : equipos[k].nombre = last'.nombre)
       => (last'.ret /\ DocumentoIgual)]_vars

\* C10: saveEquipment always reports success, also when the write fails.  When
\* a record has the name, only its section, typeCode and position are
\* overwritten; otherwise one record is appended with id max + 1 (1 in an empty
\* store) and an empty note.  The events are as before.
C10_SaveEquipoUpsert ==
    [][Es("save_equipo") =>
         LET con_nombre == {k \in DOMAIN equipos : equipos[k].nombre = last'.nombre}
             ids == {equipos[k].id : k \in DOMAIN equipos}
             nuevo == equipos'[Len(equipos) + 1]
         IN  /\ last'.ret
             /\ mantenimientos' = mantenimientos
             /\ IF con_nombre # {}
                THEN \E i \in con_nombre :
                        equipos' = [equipos EXCEPT ![i].seccion = last'.seccion,
                                                   ![i].tipo = last'.tipo,
                                                   ![i].posicion = last'.posicion]
                ELSE /\ Len(equipos') = Len(equipos) + 1
                     /\ \A k \in DOMAIN equipos : equipos'[k] = equipos[k]
                     /\ nuevo.nombre = last'.nombre
                     /\ nuevo.seccion = last'.seccion
                     /\ nuevo.tipo = last'.tipo
                     /\ nuevo.posicion = last'.posicion
                     /\ nuevo.nota = <<>>
                     /\ \A x \in ids : x < nuevo.id
                     /\ nuevo.id = 1 \/ (nuevo.id - 1) \in ids]_vars

\* C10 witness: saveEquipment has updated a record that has a note and an
\* event, moving it to another zone, and its write failed.
C10_Testigo ==
    /\ last.op = "save_equipo"
    /\ last.ret
    /\ ~last.io
    /\ last.tipo = "isla_carne"
    /\ \E i \in DOMAIN equipos :
          /\ equipos[i].nombre = last.nombre
          /\ equipos[i].nota # <<>>
          /\ \E m \in DOMAIN mantenimientos :
                mantenimientos[m].equipo_id = equipos[i].id
    /\ \E k \in DOMAIN disk.equipos : disk.equipos[k].tipo = "carne"

\* C11: saveMaintenanceEvent fails and leaves the document unchanged when no
\* record has the name; otherwise it appends one event at the end of the list,
\* with the id of the named record and the date and frequency as given, and
\* leaves every event already stored as it was.
C11_SaveMantenimiento ==
    [][Es("save_mantenimiento") =>
         LET con_nombre == {k \in DOMAIN equipos : equipos[k].nombre = last'.nombre}
             nuevo == mantenimientos'[Len(mantenimientos) + 1]
         IN  /\ equipos' = equipos
             /\ IF con_nombre = {}
                THEN ~last'.ret /\ mantenimientos' = mantenimientos
                ELSE /\ last'.ret
                     /\ Len(mantenimientos') = Len(mantenimientos) + 1
                     /\ \A k \in DOMAIN mantenimientos :
                           mantenimientos'[k] = mantenimientos[k]
                     /\ \E i \in con_nombre : nuevo.equipo_id = equipos[i].id
                     /\ nuevo.ultima_fecha = last'.desde
                     /\ nuevo.frecuencia_dias = last'.freq]_vars

\* C11 witness: an event whose date is no date has been appended after two
\* events, one of them of the same record.
C11_Testigo ==
    /\ last.op = "save_mantenimiento"
    /\ last.ret
    /\ last.desde = FMala
    /\ Len(mantenimientos) = 3
    /\ mantenimientos[3].ultima_fecha = FMala
    /\ \E k \in 1..2 : mantenimientos[k].equipo_id = mantenimientos[3].equipo_id
    /\ \E k \in 1..2 : mantenimientos[k].equipo_id # mantenimientos[3].equipo_id

\* C12: getEquipmentDetail and getEquipmentByType report for every record the
\* date and frequency of the event appended last among the events it still
\* has, whatever their dates, and nulls exactly when it has none.
C12_UltimoAnadido ==
    \A i \in DOMAIN equipos :
        LET suyos == {k \in DOMAIN mantenimientos :
                         mantenimientos[k].equipo_id = equipos[i].id}
            d == get_equipo_data(equipos, mantenimientos, equipos[i].nombre)
            t == get_equipos_por_tipo(equipos, mantenimientos, equipos[i].tipo)
            Informa(fecha, frecuencia) ==
                /\ d # <<>>
                /\ d[1].date = fecha /\ d[1].freq = frecuencia
                /\ equipos[i].nombre \in DOMAIN t
                /\ t[equipos[i].nombre].date = fecha
                /\ t[equipos[i].nombre].freq = frecuencia
        IN  IF suyos = {}
            THEN Informa(<<>>, <<>>)
            ELSE \E k \in suyos :
                    /\ \A j \in suyos : j <= k
                    /\ Informa(<<mantenimientos[k].ultima_fecha>>,
                               <<mantenimientos[k].frecuencia_dias>>)

\* C12 witness: after a reset of another record that removed an event, a record
\* has an event dated F2 and, appended after it, an event dated F1; a second
\* record has no event.
C12_Testigo ==
    /\ last.op = "reset_mantenimiento"
    /\ last.saves
    /\ Len(equipos) = 2
    /\ Len(mantenimientos) = 2
    /\ mantenimientos[1].ultima_fecha = F2
    /\ mantenimientos[2].ultima_fecha = F1
    /\ mantenimientos[1].equipo_id = mantenimientos[2].equipo_id
    /\ mantenimientos[1].id > 1

\* despues is antes with exactly the elements at the indices K, in their order.
Quedan(antes, despues, K) ==
    /\ Len(despues) = Cardinality(K)
    /\ \A k \in K : despues[Cardinality({j \in K : j <= k})] = antes[k]

\* C13: deleteEquipment on the name of a record removes that record and every
\* event with its id, and leaves every other record and every other event as
\* it was and in the same order; on a name no record has it returns success
\* and leaves the document unchanged.
C13_DeleteEquipo ==
    [][Es("delete_equipo") =>
         LET con_nombre == {k \in DOMAIN equipos : equipos[k].nombre = last'.nombre}
         IN  /\ last'.ret
             /\ IF con_nombre = {}
                THEN DocumentoIgual
                ELSE \E i \in con_nombre :
                        /\ Quedan(equipos, equipos', DOMAIN equipos \ {i})
                        /\ Quedan(mantenimientos, mantenimientos',
                                  {k \in DOMAIN mantenimientos :
                                      mantenimientos[k].equipo_id # equipos[i].id})]_vars

\* C13 witness: the first record and its event, the second of three, have been
\* deleted; the other record and its two events remain.
C13_Testigo ==
    /\ last.op = "delete_equipo"
    /\ last.saves
    /\ Len(equipos) = 1
    /\ equipos[1].id = 2
    /\ Len(mantenimientos) = 2
    /\ mantenimientos[1].id = 1
    /\ mantenimientos[2].id = 3

\* C14: resetMaintenance removes exactly the events of the named record: the
\* records and the events of every other record are unchanged, and
\* getEquipmentDetail of the name then reports a null date and frequency.
C14_ResetMantenimiento ==
    [][Es("reset_mantenimiento") =>
         LET con_nombre == {k \in DOMAIN equipos : equipos[k].nombre = last'.nombre}
             ids == {equipos[k].id : k \in con_nombre}
         IN  /\ last'.ret
             /\ equipos' = equipos
             /\ Quedan(mantenimientos, mantenimientos',
                       {k \in DOMAIN mantenimientos :
                           mantenimientos[k].equipo_id \notin ids})
             /\ con_nombre # {} =>
                   FechaFrecuencia(equipos', mantenimientos', last'.nombre)
                       = <<(<<>>), (<<>>)>>]_vars

\* C14 witness: a reset has removed the first and the third event of the list,
\* both of the named record, and left the second, of the other record.
C14_Testigo ==
    /\ last.op = "reset_mantenimiento"
    /\ last.saves
    /\ Len(equipos) = 2
    /\ Len(mantenimientos) = 1
    /\ mantenimientos[1].id = 2
    /\ \E i \in DOMAIN equipos :
          equipos[i].nombre = last.nombre /\ equipos[i].id # mantenimientos[1].equipo_id

\* C20: purgeHistory removes exactly the events whose date d satisfies
\* dateFrom <= d <= dateTo as strings, keeps the other events in their order,
\* returns the number of events removed, leaves the records untouched, and
\* writes the document only when that number is greater than 0.
C20_BorrarHistorial ==
    [][Es("borrar_historial_entre_fechas") =>
         LET fuera == {k \in DOMAIN mantenimientos :
                          ~(/\ StrLeq(last'.desde, mantenimientos[k].ultima_fecha)
                            /\ StrLeq(mantenimientos[k].ultima_fecha, last'.hasta))}
         IN  /\ equipos' = equipos
             /\ Quedan(mantenimientos, mantenimientos', fuera)
             /\ last'.n = Len(mantenimientos) - Cardinality(fuera)
             /\ last'.saves <=> last'.n > 0
             /\ IF last'.n > 0
                THEN disk' = Documento(equipos', mantenimientos', tipos')
                ELSE disk' = disk]_vars

\* C20 witness: a purge has removed one event, the second of three, and the
\* two others remain.
C20_Testigo ==
    /\ last.op = "borrar_historial_entre_fechas"
    /\ last.n = 1
    /\ last.desde = F1
    /\ last.hasta = F1
    /\ Len(mantenimientos) = 2
    /\ mantenimientos[1].id = 1
    /\ mantenimientos[2].id = 3
    /\ mantenimientos[2].ultima_fecha = FMala

Lugar(res, nombre) ==
    IF \E k \in DOMAIN res : res[k].nombre = nombre
    THEN CHOOSE k \in DOMAIN res : res[k].nombre = nombre
    ELSE 0

\* A search for "cafe" in a store that holds both names of the example.
BuscaCafeConAmbos ==
    /\ Es("buscar_equipos")
    /\ last'.query = Cafe
    /\ \E i, j \in DOMAIN equipos :
          equipos[i].nombre = MuralCafe1 /\ equipos[j].nombre = CafeteraVieja

ConsultaLimpia == limpiar_texto(strip(last'.query))
Puntos(i) ==
    IF ConsultaLimpia = <<>> THEN 0
    ELSE puntuacion(ConsultaLimpia, limpiar_texto(equipos[i].nombre))

\* C17 (as claimed): a name that neither equals the query nor starts with it
\* scores 400 exactly when the query is one whole "_"-delimited token of the
\* name, and 300 when the query is a substring of it but not such a token.
C17_TokenEntero ==
    [][(Es("buscar_equipos") /\ ConsultaLimpia # <<>>) =>
         \A i \in DOMAIN equipos :
             LET q == ConsultaLimpia
                 n == limpiar_texto(equipos[i].nombre)
                 tokens == split(n, "_")
                 entero == \E k \in DOMAIN tokens : tokens[k] = q
             IN  (n # q /\ ~startswith(n, q)) =>
                    /\ Puntos(i) = 400 <=> entero
                    /\ (Contiene(n, q) /\ ~entero) => Puntos(i) = 300]_vars

\* C18: the result of searchEquipment holds only records with a score above 0,
\* by score descending and, for equal scores, in the order of the store; it is
\* the first 25 of that order when more than 25 match; an entry has the name,
\* section and typeCode of its record and nothing else.
C18_Resultado ==
    [][Es("buscar_equipos") =>
         \A pts \in {[i \in DOMAIN equipos |-> Puntos(i)]} :
         \A positivos_i \in {{i \in DOMAIN equipos : pts[i] > 0}} :
             LET Antes(j, i) == pts[j] > pts[i] \/ (pts[j] = pts[i] /\ j < i)
                 Rango(i) == Cardinality({j \in positivos_i : Antes(j, i)}) + 1
                 res == last'.res
             IN  /\ Len(res) = IF Cardinality(positivos_i) > MaxResultados
                               THEN MaxResultados ELSE Cardinality(positivos_i)
                 /\ \A i \in positivos_i :
                       Rango(i) <= MaxResultados =>
                           res[Rango(i)] = [nombre |-> equipos[i].nombre,
                                            seccion |-> equipos[i].seccion,
                                            tipo |-> equipos[i].tipo]]_vars

\* C18 witness: a search that every one of 26 records matches has returned 25
\* entries, the exact match, the last record of the store, first.
C18_Testigo ==
    /\ last.op = "buscar_equipos"
    /\ last.query = CafeConTilde
    /\ Len(equipos) = MaxResultados + 1
    /\ IndexOfNombre(equipos, Zz) = 0
    /\ Len(last.res) = MaxResultados
    /\ last.res[1].nombre = SoloCafe
    /\ equipos[Len(equipos)].nombre = SoloCafe

\* The date a day/month/year text of a result stands for.
FechaDeTexto(t) ==
    <<Valor(SubSeq(t, 7, 10)), Valor(SubSeq(t, 4, 5)), Valor(SubSeq(t, 1, 2))>>

\* Event j of the store, for the query of last': the date it carries, whether
\* it is a date no earlier than 730 days before now, and whether it lies
\* within the bounds, each bound taken on its own or only the two together.
FechaDe(j) == strptime(mantenimientos[j].ultima_fecha)
EnVentana(j) ==
    /\ FechaDe(j) # <<>>
    /\ toordinal(FechaDe(j)[1]) >= toordinal(last'.now) - Dias24Meses
DesdeDe(j) == ~AntesQue(FechaDe(j)[1], strptime(last'.desde)[1])
HastaDe(j) == ~AntesQue(strptime(last'.hasta)[1], FechaDe(j)[1])
EnCadaLimite(j) ==
    /\ last'.desde # <<>> => DesdeDe(j)
    /\ last'.hasta # <<>> => HastaDe(j)
EnAmbosLimites(j) ==
    (last'.desde # <<>> /\ last'.hasta # <<>>) => (DesdeDe(j) /\ HastaDe(j))
DeEquipoPedido(i, j) ==
    /\ mantenimientos[j].equipo_id = equipos[i].id
    /\ last'.servicios = {} \/ equipos[i].tipo \in last'.servicios
CalificaCadaLimite(i, j) == DeEquipoPedido(i, j) /\ EnVentana(j) /\ EnCadaLimite(j)
CalificaAmbosLimites(i, j) == DeEquipoPedido(i, j) /\ EnVentana(j) /\ EnAmbosLimites(j)

\* The result of last' is made of exactly the events that qualify: the keys
\* are the names of the records with a qualifying event, the list of a name
\* holds the text of each of its qualifying events once per event, newest
\* date first, and the total is the sum of the lengths of the lists.
HistorialEs(Califica(_, _)) ==
    \A cal \in {{par \in (DOMAIN equipos) \X (DOMAIN mantenimientos) :
                    Califica(par[1], par[2])}} :
        LET h == last'.res.historial
            TextoDe(j) == strftime_dmy(FechaDe(j)[1])
            Suyos(i) == {j \in DOMAIN mantenimientos : <<i, j>> \in cal}
        IN  /\ DOMAIN h = {equipos[par[1]].nombre : par \in cal}
            /\ \A i \in DOMAIN equipos :
                  equipos[i].nombre \in DOMAIN h =>
                      LET lista == h[equipos[i].nombre]
                          textos == {TextoDe(j) : j \in Suyos(i)}
                                        \cup {lista[k] : k \in DOMAIN lista}
                      IN  /\ \A t \in textos :
                                Cardinality({k \in DOMAIN lista : lista[k] = t})
                                    = Cardinality({j \in Suyos(i) : TextoDe(j) = t})
                          /\ \A k, l \in DOMAIN lista :
                                k < l => ~AntesQue(FechaDeTexto(lista[k]),
                                                   FechaDeTexto(lista[l]))
            /\ last'.res.total =
                  Cardinality(UNION {{<<n, k>> : k \in DOMAIN h[n]} : n \in DOMAIN h})

C21_ImportExport ==
    [][(/\ Es("importar_datos_json")
        /\ last'.json_str = exportar_datos_json(equipos, mantenimientos, tipos)) =>
           /\ last'.ret
           /\ equipos' = equipos
           /\ mantenimientos' = mantenimientos
           /\ tipos' = tipos
           /\ exportar_datos_json(equipos', mantenimientos', tipos') = last'.json_str]_vars

\* C21 witness: the snapshot of a document with a record whose name holds a
\* quote and a backslash and whose note holds a line feed and a tab, and with an
\* event of negative frequency, has been imported with success.
C21_Testigo ==
    /\ last.op = "importar_datos_json"
    /\ last.ret
    /\ last.json_str = exportar_datos_json(equipos, mantenimientos, tipos)
    /\ \E i \in DOMAIN equipos :
          /\ equipos[i].nombre = NComillas
          /\ equipos[i].nota = NotaLinea
          /\ \E j \in DOMAIN mantenimientos :
                /\ mantenimientos[j].equipo_id = equipos[i].id
                /\ mantenimientos[j].frecuencia_dias < 0

\* The value of a snapshot is a document: an object that holds a list under
\* each of the three collections.
EsDocumento(v) ==
    /\ v.t = "dict"
    /\ \A key \in {"equipos", "mantenimientos", "tipos"} :
          Tiene(v.d, key) /\ Item(v.d, key).t = "list"
Invalido(json_str) == loads(json_str) = <<>> \/ ~EsDocumento(loads(json_str)[1])
NadaCambia ==
    /\ equipos' = equipos /\ mantenimientos' = mantenimientos /\ tipos' = tipos
    /\ disk' = disk

\* C22: importDocument of a structurally invalid snapshot (one that cannot be
\* deserialized, or that does not deserialize to an object holding the three
\* collections) returns failure and leaves the document in memory and the
\* persisted document as they were.
C22_ImportInvalido ==
    [][(Es("importar_datos_json") /\ Invalido(last'.json_str)) =>
           (~last'.ret /\ NadaCambia)]_vars

\* C22, the part that holds: importDocument of a snapshot that cannot be
\* deserialized returns failure and leaves both documents as they were.
C22_ImportIlegible ==
    [][(Es("importar_datos_json") /\ loads(last'.json_str) = <<>>) =>
           (~last'.ret /\ NadaCambia)]_vars

\* C22 witness: the import of an object without "tipos" over a document with a
\* catalog has returned success, and the catalog is gone from memory and from
\* the persisted document.
C22_Testigo ==
    /\ last.op = "importar_datos_json"
    /\ last.json_str = exportar_datos_json(<<>>, <<>>, <<>>)
    /\ last.ret
    /\ tipos = <<>>
    /\ disk.tipos = <<>>

OperacionesQueGuardan ==
    {"save_equipo", "save_mantenimiento", "delete_equipo", "reset_mantenimiento",
     "set_nota_equipo", "rename_equipo", "change_equipo_position",
     "insert_equipo_at_position", "importar_datos_json"}

\* C24: when the write performed by a mutating operation fails, the operation
\* returns a failure result to its caller (and the document in memory keeps
\* the mutation: the stored document is the one left behind).
C24_FalloDevuelto ==
    [][(last'.op \in OperacionesQueGuardan /\ last'.saves /\ ~last'.io) =>
           (~last'.ret /\ disk' = disk)]_vars

\* C24, the part that holds: when the write fails the document in memory keeps
\* the mutation and the stored document stays as it was; here a record that
\* save_equipo has created.
C24_MutacionQueda ==
    [][(Es("save_equipo") /\ ~last'.io /\ IndexOfNombre(equipos, last'.nombre) = 0) =>
           /\ IndexOfNombre(equipos', last'.nombre) = Len(equipos) + 1
           /\ disk' = disk
           /\ disk' # Documento(equipos', mantenimientos', tipos')]_vars

\* C24 witness: a delete whose write failed has returned success; the record
\* is gone from memory and the stored document still holds it.
C24_Testigo ==
    /\ last.op = "delete_equipo"
    /\ last.saves /\ ~last.io
    /\ last.ret
    /\ IndexOfNombre(equipos, last.nombre) = 0
    /\ IndexOfNombre(disk.equipos, last.nombre) # 0

\* The current event of the record calculate_days was asked about, and the
\* calendar days from its date to the day of now.
EventoActual == ultimo_mant(mantenimientos, equipos[IndexOfNombre(equipos, last'.nombre)].id)[1]
DiasDesde == toordinal(last'.now) - toordinal(strptime(EventoActual.ultima_fecha)[1])

\* C25: for an Equipment whose current event is dated d calendar days before
\* today with frequencyDays f, computeDueStatus returns daysRemaining = f - d
\* at every time of day (20 for d = 10 and f = 30, 0 when the next due date is
\* today, negative only when the next due date is before today).
C25_DiasRestantes ==
    [][(Es("calculate_days") /\ last'.res # <<>>) =>
           last'.res[1] = EventoActual.frecuencia_dias - DiasDesde]_vars

\* C25, what the code returns: f - d at midnight sharp and f - d - 1 at every
\* later time of the day.
C25_UnDiaMenos ==
    [][(Es("calculate_days") /\ last'.res # <<>>) =>
           last'.res[1] = IF last'.now[4] = 0
                          THEN EventoActual.frecuencia_dias - DiasDesde
                          ELSE EventoActual.frecuencia_dias - DiasDesde - 1]_vars

\* C25 witness: at noon, for an event dated 10 days before today with
\* frequency 30, calculate_days has returned 19.
C25_Testigo ==
    /\ last.op = "calculate_days"
    /\ last.now = <<2024, 2, 14, SegundosDia \div 2>>
    /\ last.nombre = NA
    /\ mantenimientos # <<>>
    /\ mantenimientos[Len(mantenimientos)].ultima_fecha = FDiez
    /\ mantenimientos[Len(mantenimientos)].frecuencia_dias = 30
    /\ last.res = <<19, strftime_dmy(<<2024, 3, 5>>)>>

\* C26: in every state reached by insertAtPosition, deleteEquipment and
\* changePosition calls, the position of every Equipment lies within the 10
\* slots 0..9 of its typeCode.
C26_PosicionEnRango ==
    \A i \in DOMAIN equipos : equipos[i].posicion \in 0..(ZonaCapacidad - 1)

\* C26 witness: an insert at position 0 into a zone of 9 records, the first
\* slot free after a delete, has succeeded and moved a record to position 10.
C26_Testigo ==
    /\ last.op = "insert_equipo_at_position"
    /\ last.ret
    /\ last.posicion = 0
    /\ Len(equipos) = ZonaCapacidad
    /\ \E i \in DOMAIN equipos : equipos[i].posicion = ZonaCapacidad
    /\ \A i \in DOMAIN equipos : equipos[i].tipo = "carne"

\* C27: in every state reached from the bootstrapped store without import, the
\* ids of the Equipment are pairwise distinct, the ids of the MaintenanceEvents
\* are pairwise distinct, and both lists are in strictly increasing id order.
C27_IdsCrecientes ==
    /\ \A i, j \in DOMAIN equipos : i < j => equipos[i].id < equipos[j].id
    /\ \A i, j \in DOMAIN mantenimientos :
          i < j => mantenimientos[i].id < mantenimientos[j].id

\* C27 witness: an insert at the start of the zone has appended the new record
\* at the end of the list with an id above the one before it, whose position
\* it shifted; the list of events holds two.
C27_Testigo ==
    /\ last.op = "insert_equipo_at_position"
    /\ last.ret
    /\ Len(equipos) = 2
    /\ equipos[2].nombre = last.nombre
    /\ equipos[2].posicion = 0
    /\ equipos[1].posicion = 1
    /\ equipos[1].id < equipos[2].id
    /\ Len(mantenimientos) = 2

\* The ids of a list of records.
IdsDe(lista) == {lista[i].id : i \in DOMAIN lista}

\* C28 (as stated): ids are never reused over the whole history of the store.
\* Every id in a list was minted by an earlier create and a create mints
\* nuevo_id of the list, so no call may lower the id the next create mints,
\* neither for the records nor for the events.
C28_NuncaReusado ==
    [][/\ nuevo_id(equipos') >= nuevo_id(equipos)
       /\ nuevo_id(mantenimientos') >= nuevo_id(mantenimientos)]_vars

\* C28 (amended): the id minted by save_equipo, insert_equipo_at_position or
\* save_mantenimiento is strictly greater than every id the list holds when
\* the call is made.
C28_MayorQueLosPresentes ==
    [][/\ (last'.op \in {"save_equipo", "insert_equipo_at_position"}
           /\ Len(equipos') = Len(equipos) + 1)
          => \A id \in IdsDe(equipos) : equipos'[Len(equipos')].id > id
       /\ (last'.op = "save_mantenimiento"
           /\ Len(mantenimientos') = Len(mantenimientos) + 1)
          => \A id \in IdsDe(mantenimientos) :
                mantenimientos'[Len(mantenimientos')].id > id]_vars

\* C28 witness: the record with id 1 was deleted, the record with id 2 is
\* left, and save_mantenimiento has just appended a second event to the list.
C28_Testigo ==
    /\ last.op = "save_mantenimiento"
    /\ last.ret
    /\ IdsDe(equipos) = {2}
    /\ Len(mantenimientos) = 2
    /\ mantenimientos[2].id > mantenimientos[1].id

\* C29: after every operation (creates, renames, deletes, resets, purges and
\* event saves, no import) every event's equipo_id is the id of an existing
\* record, and a record just appended by save_equipo or
\* insert_equipo_at_position has no events, whatever id it received.
C29_SinHuerfanos ==
    [][/\ \A i \in DOMAIN mantenimientos' :
             mantenimientos'[i].equipo_id \in IdsDe(equipos')
       /\ (/\ last'.op \in {"save_equipo", "insert_equipo_at_position"}
           /\ Len(equipos') = Len(equipos) + 1)
          => \A i \in DOMAIN mantenimientos' :
                mantenimientos'[i].equipo_id # equipos'[Len(equipos')].id]_vars

\* C29 witness: event 1 went away with the record that owned it while event 2
\* of record 1 stayed, and an insert has just given id 2 to a new record.
C29_Testigo ==
    /\ last.op = "insert_equipo_at_position"
    /\ last.ret
    /\ Len(equipos) = 2
    /\ equipos[2].id = 2
    /\ Len(mantenimientos) = 1
    /\ mantenimientos[1].id = 2
    /\ mantenimientos[1].equipo_id = 1

\* The tiers a name that holds the query can score.
Niveles == {1000, 500, 400, 300}

\* For the search of last': the records whose cleaned name holds the cleaned,
\* non-empty query, and the records the result names.
Coinciden ==
    {i \in DOMAIN equipos :
        /\ ConsultaLimpia # <<>>
        /\ Contiene(limpiar_texto(equipos[i].nombre), ConsultaLimpia)}
Devueltos ==
    {i \in DOMAIN equipos :
        \E k \in DOMAIN last'.res : last'.res[k].nombre = equipos[i].nombre}

\* C30 (as stated): searchEquipment returns a record if and only if the
\* cleaned, non-empty query is a substring of its cleaned name; every such
\* name scores 1000, 500, 400 or 300 and no name scores 200 or 100; an empty
\* or blank query returns the empty list.
C30_DevueltoSiiContiene ==
    [][Es("buscar_equipos") =>
         \A coinciden \in {Coinciden} :
             /\ Devueltos = coinciden
             /\ \A i \in DOMAIN equipos :
                   Puntos(i) \in (IF i \in coinciden THEN Niveles ELSE {0})
             /\ ConsultaLimpia = <<>> => last'.res = <<>>]_vars

\* C30 (amended): a record scores above 0 if and only if the cleaned,
\* non-empty query is a substring of its cleaned name, and then scores 1000,
\* 500, 400 or 300, never 200 or 100; the result names exactly those records
\* when they are at most 25, and 25 of them otherwise; an empty or blank
\* query returns the empty list.
C30_PuntuadoSiiContiene ==
    [][Es("buscar_equipos") =>
         \A coinciden \in {Coinciden} :
         \A devueltos \in {Devueltos} :
             /\ \A i \in DOMAIN equipos :
                   Puntos(i) \in (IF i \in coinciden THEN Niveles ELSE {0})
             /\ devueltos \subseteq coinciden
             /\ Cardinality(coinciden) <= MaxResultados => devueltos = coinciden
             /\ Cardinality(coinciden) > MaxResultados
                   => Cardinality(devueltos) = MaxResultados
             /\ Len(last'.res) = Cardinality(devueltos)
             /\ ConsultaLimpia = <<>> => last'.res = <<>>]_vars

\* C30 witness: a search with an accented query between blanks on a store of
\* five records, one that holds no "cafe" and four that hold it as the whole
\* name, at its start, at the start of a later token and inside a token, has
\* returned the four.
C30_Testigo ==
    /\ last.op = "buscar_equipos"
    /\ last.query = CafeConTilde
    /\ Len(equipos) = 5
    /\ IndexOfNombre(equipos, Zz) # 0
    /\ IndexOfNombre(equipos, SoloCafe) # 0
    /\ Len(last.res) = 4
    /\ \A k \in DOMAIN last.res : last.res[k].nombre # Zz

====
